---------------------------- MODULE Spec2Model ----------------------------
(***************************************************************************)
(* A model of the LSP transport of ctools (src/api/lsp.py): RPCMessage,    *)
(* Stream, the request-id counter of LSPClient and the StandardIO          *)
(* transport with its stdout reader thread.                                *)
(*                                                                         *)
(* Bytes are one-character strings and a byte string is a sequence of      *)
(* them.  Every byte of the model is ASCII, so the byte length of an       *)
(* encoded text is the length of the text.                                 *)
(***************************************************************************)
EXTENDS Integers, Sequences, FiniteSets, TLC

(***************************************************************************)
(* Bounds of the model.                                                    *)
(***************************************************************************)
MaxEvents == 3
MaxReads == 2

(***************************************************************************)
(* Program constants.                                                      *)
(***************************************************************************)
BUFFER_LENGTH == 4096

CR == "\r"
LF == "\n"
QUOTE == "\""

separator == <<CR, LF, CR, LF>>

\* The literal "Content-Length: " of the header and of _content_length_pattern.
ContentLengthField ==
    <<"C", "o", "n", "t", "e", "n", "t", "-", "L", "e", "n", "g", "t", "h", ":", " ">>

DigitChars == <<"0", "1", "2", "3", "4", "5", "6", "7", "8", "9">>

IsDigit(c) == \E d \in 1..10 : DigitChars[d] = c

DigitVal(c) == (CHOOSE d \in 1..10 : DigitChars[d] = c) - 1

Min(a, b) == IF a < b THEN a ELSE b

\* The element of a set of one element.  Only({F(x) : x \in {e}}) is F(e),
\* with e evaluated once however often F refers to x.
Only(S) == CHOOSE x \in S : TRUE

\* The least element of a non-empty set of integers.
Least(S) == CHOOSE k \in S : \A m \in S : k <= m

\* A slice that starts one place late.
Drop_one_more(s, i) == SubSeq(s, i + 1, Len(s))

\* s[i:] of Python with a 1-based i.
Drop(s, i) == SubSeq(s, i, Len(s))

\* str(n) for n >= 0.
RECURSIVE IntToChars(_)
IntToChars(n) ==
    IF n < 10 THEN <<DigitChars[n + 1]>>
    ELSE IntToChars(n \div 10) \o <<DigitChars[(n % 10) + 1]>>

\* int(s) for a non-empty run of digits.
RECURSIVE CharsToInt(_)
CharsToInt(s) ==
    IF Len(s) = 0 THEN 0
    ELSE 10 * CharsToInt(SubSeq(s, 1, Len(s) - 1)) + DigitVal(s[Len(s)])

(***************************************************************************)
(* JSON values.  The model's subset: integers, strings without escapes,    *)
(* null and objects.  A Python dict is the sequence of its <<key, value>>  *)
(* pairs in insertion order; None is JNull.                                *)
(***************************************************************************)
JNull == [t |-> "null", n |-> 0, s |-> <<>>, o |-> <<>>]

JInt(n) == [t |-> "int", n |-> n, s |-> <<>>, o |-> <<>>]

JStr(s) == [t |-> "str", n |-> 0, s |-> s, o |-> <<>>]

JObj(o) == [t |-> "obj", n |-> 0, s |-> <<>>, o |-> o]

\* bool(v) of Python.
Truthy(v) ==
    CASE v.t = "null" -> FALSE
      [] v.t = "int" -> v.n # 0
      [] v.t = "str" -> v.s # <<>>
      [] OTHER -> v.o # <<>>

\* d.get(key)
ObjGet(o, key) ==
    IF \E i \in 1..Len(o) : o[i][1] = key
    THEN o[CHOOSE i \in 1..Len(o) : o[i][1] = key][2]
    ELSE JNull

ObjHas(o, key) == \E i \in 1..Len(o) : o[i][1] = key

\* d[key] = value: an existing key keeps its place.
ObjSet(o, key, value) ==
    IF ObjHas(o, key)
    THEN [i \in 1..Len(o) |-> IF o[i][1] = key THEN <<key, value>> ELSE o[i]]
    ELSE Append(o, <<key, value>>)

\* The JSON text of v with the given item and key separators.
RECURSIVE Encode(_, _, _), EncodeMembers(_, _, _)
Encode(v, item_separator, key_separator) ==
    CASE v.t = "null" -> <<"n", "u", "l", "l">>
      [] v.t = "int" ->
            IF v.n < 0 THEN <<"-">> \o IntToChars(0 - v.n) ELSE IntToChars(v.n)
      [] v.t = "str" -> <<QUOTE>> \o v.s \o <<QUOTE>>
      [] OTHER -> <<"{">> \o EncodeMembers(v.o, item_separator, key_separator) \o <<"}">>

EncodeMembers(o, item_separator, key_separator) ==
    IF Len(o) = 0 THEN <<>>
    ELSE <<QUOTE>> \o o[1][1] \o <<QUOTE>> \o key_separator
         \o Encode(o[1][2], item_separator, key_separator)
         \o (IF Len(o) = 1 THEN <<>>
             ELSE item_separator \o EncodeMembers(Tail(o), item_separator, key_separator))

\* json.dumps(v) with the default separators ", " and ": ".
Dumps(v) == Encode(v, <<",", " ">>, <<":", " ">>)

\* The compact JSON text the child writes.
ServerDumps(v) == Encode(v, <<",">>, <<":">>)

\* json.loads: a recursive-descent parser of the subset.
JsonWhitespace == {" ", "\t", LF, CR}

ParseFail == [ok |-> FALSE, v |-> JNull, i |-> 0]

ParseOk(v, i) == [ok |-> TRUE, v |-> v, i |-> i]

RECURSIVE SkipWs(_, _)
SkipWs(s, i) ==
    IF i <= Len(s) /\ s[i] \in JsonWhitespace THEN SkipWs(s, i + 1) ELSE i

\* The end of the run of digits that starts at i (i itself when there is none).
RECURSIVE DigitsEnd(_, _)
DigitsEnd(s, i) ==
    IF i <= Len(s) /\ IsDigit(s[i]) THEN DigitsEnd(s, i + 1) ELSE i

\* s[i] is the opening quote.
ParseString(s, i) ==
    Only({IF closing = {} THEN ParseFail
          ELSE Only({IF \E k \in (i + 1)..(j - 1) : s[k] \in {CR, LF, "\t", "\\"}
                     THEN ParseFail
                     ELSE ParseOk(JStr(SubSeq(s, i + 1, j - 1)), j + 1) :
                     j \in {Least(closing)}}) :
          closing \in {{j \in (i + 1)..Len(s) : s[j] = QUOTE}}})

\* -?(0|[1-9]\d*) at i.
ParseInt(s, i) ==
    Only({Only({IF e = b THEN ParseFail
                ELSE Only({ParseOk(JInt(IF b > i THEN 0 - n ELSE n), e) :
                           n \in {CharsToInt(SubSeq(s, b, e - 1))}}) :
                e \in {IF b <= Len(s) /\ s[b] = "0" THEN b + 1
                       ELSE DigitsEnd(s, b)}}) :
          b \in {IF i <= Len(s) /\ s[i] = "-" THEN i + 1 ELSE i}})

RECURSIVE ParseValue(_, _), ParseMembers(_, _, _)
ParseValue(s, i) ==
    IF i > Len(s) THEN ParseFail
    ELSE CASE s[i] = QUOTE -> ParseString(s, i)
           [] s[i] = "{" ->
                 Only({IF j <= Len(s) /\ s[j] = "}" THEN ParseOk(JObj(<<>>), j + 1)
                       ELSE ParseMembers(s, j, <<>>) :
                       j \in {SkipWs(s, i + 1)}})
           [] s[i] = "n" ->
                 IF i + 3 <= Len(s) /\ SubSeq(s, i, i + 3) = <<"n", "u", "l", "l">>
                 THEN ParseOk(JNull, i + 4)
                 ELSE ParseFail
           [] s[i] = "-" \/ IsDigit(s[i]) -> ParseInt(s, i)
           [] OTHER -> ParseFail

\* i is where a member's key must start; acc holds the members read so far.
ParseMembers(s, i, acc) ==
    IF ~(i <= Len(s) /\ s[i] = QUOTE) THEN ParseFail
    ELSE Only({
      IF ~k.ok THEN ParseFail
      ELSE Only({
        IF ~(c <= Len(s) /\ s[c] = ":") THEN ParseFail
        ELSE Only({
          IF ~v.ok THEN ParseFail
          ELSE Only({
            IF d > Len(s) THEN ParseFail
            ELSE IF s[d] = "}" THEN ParseOk(JObj(ObjSet(acc, k.v.s, v.v)), d + 1)
            ELSE IF s[d] = ","
                 THEN Only({ParseMembers(s, next, acc2) :
                            next \in {SkipWs(s, d + 1)},
                            acc2 \in {ObjSet(acc, k.v.s, v.v)}})
            ELSE ParseFail :
            d \in {SkipWs(s, v.i)}}) :
          v \in {ParseValue(s, SkipWs(s, c + 1))}}) :
        c \in {SkipWs(s, k.i)}}) :
      k \in {ParseString(s, i)}})

\* json.loads(s): ok is FALSE where it raises JSONDecodeError.
Loads(s) ==
    Only({IF r.ok /\ SkipWs(s, r.i) = Len(s) + 1
          THEN [ok |-> TRUE, v |-> r.v]
          ELSE [ok |-> FALSE, v |-> JNull] :
          r \in {ParseValue(s, SkipWs(s, 1))}})


(***************************************************************************)
(* Exceptions are named by their class.                                    *)
(***************************************************************************)
NoError == ""

\* The subclasses of ValueError among the exceptions of the model.
IsValueError(e) ==
    e \in {"ValueError", "InvalidMessage", "ContentIncomplete", "ContentOverflow",
           "JSONDecodeError"}

\* The subclasses of Exception.
IsException(e) ==
    IsValueError(e)
    \/ e \in {"Exception", "EOFError", "KeyError", "TypeError", "RuntimeError",
              "BrokenPipeError", "ServerOffline"}

(***************************************************************************)
(* RPCMessage: a dict, the sequence of its <<key, value>> pairs.           *)
(***************************************************************************)
K_id == <<"i", "d">>
K_method == <<"m", "e", "t", "h", "o", "d">>
K_params == <<"p", "a", "r", "a", "m", "s">>
K_result == <<"r", "e", "s", "u", "l", "t">>
K_error == <<"e", "r", "r", "o", "r">>
K_jsonrpc == <<"j", "s", "o", "n", "r", "p", "c">>

JSONRPC_VERSION == <<"2", ".", "0">>

CancelRequestMethod ==
    <<"$", "/", "c", "a", "n", "c", "e", "l", "R", "e", "q", "u", "e", "s", "t">>

RPCMessage_notification(method, params) ==
    << <<K_method, JStr(method)>>, <<K_params, params>> >>

RPCMessage_request(id_, method, params) ==
    << <<K_id, JInt(id_)>>, <<K_method, JStr(method)>>, <<K_params, params>> >>

RPCMessage_response(id_, result, error) ==
    << <<K_id, JInt(id_)>> >>
    \o (IF result # JNull THEN << <<K_result, result>> >> ELSE <<>>)
    \o (IF error # JNull THEN << <<K_error, error>> >> ELSE <<>>)

RPCMessage_cancel_request(id_) ==
    << <<K_method, JStr(CancelRequestMethod)>>,
       <<K_params, JObj(<< <<K_id, JInt(id_)>> >>)>> >>

\* A framing whose header declares one byte more than the body has.
Frame_declares_one_more(body) ==
    ContentLengthField \o IntToChars(Len(body) + 1) \o separator \o body

\* The header and the body of a frame, joined by the separator.
Frame(body) == ContentLengthField \o IntToChars(Len(body)) \o separator \o body

to_bytes(message) ==
    Frame(Dumps(JObj(ObjSet(message, K_jsonrpc, JStr(JSONRPC_VERSION)))))

\* RPCMessage.from_str(s) = RPCMessage(json.loads(s)): json.loads may raise; a
\* falsy value gives the empty dict; a truthy value that is no dict makes
\* dict.update raise.
from_str(s) ==
    Only({IF ~r.ok THEN [exc |-> "JSONDecodeError", message |-> <<>>]
          ELSE IF r.v.t = "obj" THEN [exc |-> NoError, message |-> r.v.o]
          ELSE IF ~Truthy(r.v) THEN [exc |-> NoError, message |-> <<>>]
          ELSE [exc |-> IF r.v.t = "str" THEN "ValueError" ELSE "TypeError",
                message |-> <<>>] :
          r \in {Loads(s)}})

(***************************************************************************)
(* Stream.  The buffer is the list of chunks; get_content joins it, so the *)
(* model keeps the joined bytes.                                           *)
(***************************************************************************)
\* A put that places the new bytes before the buffered ones.
Stream_put_front(buf, data) == data \o buf

Stream_put(buf, data) == buf \o data

\* The 1-based places where _content_length_pattern,
\*   ^Content-Length: (\d+)$   with re.MULTILINE,
\* matches in headers: ^ is the start or follows "\n", $ is the end or
\* precedes "\n".
ContentLengthMatches(headers) ==
    {i \in 1..Len(headers) :
        /\ (i = 1 \/ headers[i - 1] = LF)
        /\ i + Len(ContentLengthField) - 1 <= Len(headers)
        /\ SubSeq(headers, i, i + Len(ContentLengthField) - 1) = ContentLengthField
        /\ LET b == i + Len(ContentLengthField)
               e == DigitsEnd(headers, b)
           IN  e > b /\ (e = Len(headers) + 1 \/ headers[e] = LF)}

\* A _get_content_length that takes the length to be 0 when the headers
\* have no Content-Length.
get_content_length_or_zero(headers) ==
    LET found == ContentLengthMatches(headers)
    IN  IF found = {} THEN [exc |-> NoError, n |-> 0]
        ELSE LET i == CHOOSE k \in found : \A m \in found : k <= m
                 b == i + Len(ContentLengthField)
             IN  [exc |-> NoError,
                  n |-> CharsToInt(SubSeq(headers, b, DigitsEnd(headers, b) - 1))]

\* Stream._get_content_length: search() takes the leftmost match.
get_content_length(headers) ==
    Only({IF found = {} THEN [exc |-> "ValueError", n |-> 0]
          ELSE Only({[exc |-> NoError,
                      n |-> CharsToInt(SubSeq(headers, b, DigitsEnd(headers, b) - 1))] :
                     b \in {Least(found) + Len(ContentLengthField)}}) :
          found \in {ContentLengthMatches(headers)}})

\* The 1-based places where the separator starts in buffers.
SeparatorPlaces(buffers) ==
    {i \in 1..(Len(buffers) - Len(separator) + 1) :
        SubSeq(buffers, i, i + Len(separator) - 1) = separator}

\* A get_content that keeps nothing of what follows the content it returns.
get_content_drops_rest(buffers) ==
    IF buffers = <<>>
    THEN [exc |-> "EOFError", content |-> <<>>, buffer |-> buffers]
    ELSE IF SeparatorPlaces(buffers) = {}
    THEN [exc |-> "InvalidMessage", content |-> <<>>, buffer |-> <<>>]
    ELSE LET places == SeparatorPlaces(buffers)
             header_end == CHOOSE k \in places : \A m \in places : k <= m
             cl == get_content_length(SubSeq(buffers, 1, header_end - 1))
         IN  IF cl.exc # NoError
             THEN [exc |-> "InvalidMessage", content |-> <<>>, buffer |-> <<>>]
             ELSE LET start_index == header_end + Len(separator)
                      end_index == start_index + cl.n
                      content == SubSeq(buffers, start_index,
                                        Min(end_index - 1, Len(buffers)))
                  IN  IF Len(content) < cl.n
                      THEN [exc |-> "ContentIncomplete", content |-> <<>>,
                            buffer |-> buffers]
                      ELSE [exc |-> NoError, content |-> content, buffer |-> <<>>]

\* A get_content that discards the buffer when the content is incomplete.
get_content_discards_incomplete(buffers) ==
    IF buffers = <<>>
    THEN [exc |-> "EOFError", content |-> <<>>, buffer |-> buffers]
    ELSE IF SeparatorPlaces(buffers) = {}
    THEN [exc |-> "InvalidMessage", content |-> <<>>, buffer |-> <<>>]
    ELSE LET places == SeparatorPlaces(buffers)
             header_end == CHOOSE k \in places : \A m \in places : k <= m
             cl == get_content_length(SubSeq(buffers, 1, header_end - 1))
         IN  IF cl.exc # NoError
             THEN [exc |-> "InvalidMessage", content |-> <<>>, buffer |-> <<>>]
             ELSE LET start_index == header_end + Len(separator)
                      end_index == start_index + cl.n
                      content == SubSeq(buffers, start_index,
                                        Min(end_index - 1, Len(buffers)))
                  IN  IF Len(content) < cl.n
                      THEN [exc |-> "ContentIncomplete", content |-> <<>>,
                            buffer |-> <<>>]
                      ELSE [exc |-> NoError, content |-> content,
                            buffer |-> Drop(buffers, end_index)]

\* A get_content that keeps the buffer when the header is not valid.
get_content_keeps_garbage(buffers) ==
    IF buffers = <<>>
    THEN [exc |-> "EOFError", content |-> <<>>, buffer |-> buffers]
    ELSE IF SeparatorPlaces(buffers) = {}
    THEN [exc |-> "InvalidMessage", content |-> <<>>, buffer |-> buffers]
    ELSE LET places == SeparatorPlaces(buffers)
             header_end == CHOOSE k \in places : \A m \in places : k <= m
             cl == get_content_length(SubSeq(buffers, 1, header_end - 1))
         IN  IF cl.exc # NoError
             THEN [exc |-> "InvalidMessage", content |-> <<>>, buffer |-> buffers]
             ELSE LET start_index == header_end + Len(separator)
                      end_index == start_index + cl.n
                      content == SubSeq(buffers, start_index,
                                        Min(end_index - 1, Len(buffers)))
                  IN  IF Len(content) < cl.n
                      THEN [exc |-> "ContentIncomplete", content |-> <<>>,
                            buffer |-> buffers]
                      ELSE [exc |-> NoError, content |-> content,
                            buffer |-> Drop(buffers, end_index)]

\* Stream.get_content: the exception raised (NoError when it returns), the
\* content returned and the buffer it leaves.
get_content(buffers) ==
    IF buffers = <<>>
    THEN [exc |-> "EOFError", content |-> <<>>, buffer |-> buffers]
    ELSE Only({
      IF places = {}
      THEN [exc |-> "InvalidMessage", content |-> <<>>, buffer |-> <<>>]
      ELSE Only({Only({Only({
             IF cl.exc # NoError
             THEN [exc |-> "InvalidMessage", content |-> <<>>, buffer |-> <<>>]
             ELSE LET start_index == header_end + Len(separator)
                      end_index == start_index + cl.n
                      content == SubSeq(buffers, start_index,
                                        Min(end_index - 1, Len(buffers)))
                  IN  IF Len(content) < cl.n
                      THEN [exc |-> "ContentIncomplete", content |-> <<>>,
                            buffer |-> buffers]
                      ELSE [exc |-> NoError, content |-> content,
                            buffer |-> Drop(buffers, end_index)] :
             cl \in {get_content_length(headers)}}) :
           headers \in {SubSeq(buffers, 1, header_end - 1)}}) :
         header_end \in {Least(places)}}) :
      places \in {SeparatorPlaces(buffers)}})

(***************************************************************************)
(* RPCMessage.from_bytes, and the encoder of src/plugin/context.py.        *)
(***************************************************************************)
\* b.split(b"\r\n\r\n"): the parts between the occurrences of the separator,
\* found from left to right.
RECURSIVE Split(_)
Split(b) ==
    IF SeparatorPlaces(b) = {} THEN <<b>>
    ELSE LET places == SeparatorPlaces(b)
             i == CHOOSE k \in places : \A m \in places : k <= m
         IN  <<SubSeq(b, 1, i - 1)>> \o Split(Drop(b, i + Len(separator)))

\* RPCMessage.from_bytes: the exception raised (NoError when it returns) and
\* the message returned.  The ValueError of get_content_length is raised
\* outside the try blocks.
from_bytes(b) ==
    LET parts == Split(b)
        failed(exc) == [exc |-> exc, message |-> <<>>]
    IN  IF Len(parts) # 2 THEN failed("InvalidMessage")
        ELSE LET defined_length == get_content_length(parts[1])
                 expected_length == Len(parts[2])
                 loaded == Loads(parts[2])
             IN  IF defined_length.exc # NoError THEN failed("ValueError")
                 ELSE IF expected_length < defined_length.n
                 THEN failed("ContentIncomplete")
                 ELSE IF expected_length > defined_length.n
                 THEN failed("ContentOverflow")
                 ELSE IF ~loaded.ok \/ loaded.v.t # "obj" THEN failed("InvalidMessage")
                 ELSE IF ~ObjHas(loaded.v.o, K_jsonrpc) THEN failed("InvalidMessage")
                 ELSE IF ObjGet(loaded.v.o, K_jsonrpc) # JStr(JSONRPC_VERSION)
                 THEN failed("InvalidMessage")
                 ELSE [exc |-> NoError, message |-> loaded.v.o]

\* JSONMessage(data) of src/plugin/context.py: data.update({"jsonrpc": "2.0"}).
JSONMessage(data) == ObjSet(data, K_jsonrpc, JStr(JSONRPC_VERSION))

\* JSONMessage.to_bytes of src/plugin/context.py: the header line, the empty
\* line, the message and os.linesep.
JSONMessage_to_bytes(data, linesep) ==
    LET message == Dumps(JObj(data))
    IN  ContentLengthField \o IntToChars(Len(message)) \o <<CR, LF>>
        \o <<CR, LF>> \o message \o linesep

(***************************************************************************)
(* A Python dict whose iteration the model follows: its entries, in        *)
(* insertion order, a deleted entry leaving a dummy behind.                *)
(***************************************************************************)
Dummy == [k |-> 0, v |-> <<>>, live |-> FALSE]

EmptyDict == <<>>

DictHas(d, key) == \E i \in 1..Len(d) : d[i].live /\ d[i].k = key

DictGet(d, key) == d[CHOOSE i \in 1..Len(d) : d[i].live /\ d[i].k = key].v

DictKeys(d) == {d[i].k : i \in {j \in 1..Len(d) : d[j].live}}

DictLen(d) == Cardinality({i \in 1..Len(d) : d[i].live})

DictSet(d, key, value) ==
    IF DictHas(d, key)
    THEN [i \in 1..Len(d) |->
            IF d[i].live /\ d[i].k = key THEN [d[i] EXCEPT !.v = value] ELSE d[i]]
    ELSE Append(d, [k |-> key, v |-> value, live |-> TRUE])

DictPop(d, key) ==
    [i \in 1..Len(d) |-> IF d[i].live /\ d[i].k = key THEN Dummy ELSE d[i]]

\* The live entries, in iteration order.
RECURSIVE DictItems(_)
DictItems(d) ==
    IF Len(d) = 0 THEN <<>>
    ELSE (IF d[1].live THEN <<d[1]>> ELSE <<>>) \o DictItems(Tail(d))


(***************************************************************************)
(* LSPClient: the fields of a session.  transport is 0 for None and k for  *)
(* the k-th StandardIO the client has constructed; constructed counts the  *)
(* StandardIO objects constructed so far.                                  *)
(***************************************************************************)
NoVersions == [f \in {} |-> 0]

\* LSPClient.__init__
LSPClient_init ==
    [transport |-> 0, server_running |-> FALSE, is_initialized |-> FALSE,
     active_document |-> "", source |-> "", document_version_map |-> NoVersions,
     constructed |-> 0]

\* A reset_session that keeps the document the client has open.
reset_session_keeps_document(s) ==
    [transport |-> 0, server_running |-> FALSE, is_initialized |-> FALSE,
     active_document |-> s.active_document, source |-> s.source,
     document_version_map |-> s.document_version_map,
     constructed |-> s.constructed]

\* LSPClient.reset_session, the assignments after transport.terminate().
reset_session(s) ==
    [transport |-> 0, server_running |-> FALSE, is_initialized |-> FALSE,
     active_document |-> "", source |-> "", document_version_map |-> NoVersions,
     constructed |-> s.constructed]

\* A get_document_version whose reset leaves the version it finds.
get_document_version_without_reset(versions, file_name, reset) ==
    LET cur_version ==
            (IF file_name \in DOMAIN versions THEN versions[file_name] ELSE 0) + 1
    IN  [version |-> cur_version,
         document_version_map |->
            [f \in DOMAIN versions \cup {file_name} |->
                IF f = file_name THEN cur_version ELSE versions[f]]]

\* LSPClient.get_document_version with increment=True: the version returned
\* and the map it leaves.
get_document_version(versions, file_name, reset) ==
    LET start == IF reset THEN [f \in DOMAIN versions \cup {file_name} |->
                                  IF f = file_name THEN 0 ELSE versions[f]]
                 ELSE versions
        cur_version ==
            (IF file_name \in DOMAIN start THEN start[file_name] ELSE 0) + 1
    IN  [version |-> cur_version,
         document_version_map |->
            [f \in DOMAIN start \cup {file_name} |->
                IF f = file_name THEN cur_version ELSE start[f]]]

\* The session of a client whose run_server has returned and that has
\* called nothing since.
SessionStarted ==
    [LSPClient_init EXCEPT !.transport = 1, !.constructed = 1,
                           !.server_running = TRUE]

\* No reader thread of a former transport is left.
NoReader == [alive |-> FALSE, stdout |-> <<>>, request_map |-> <<>>]

(***************************************************************************)
(* The state: one LSPClient with its StandardIO transport, the child       *)
(* process and its pipes.                                                  *)
(***************************************************************************)
VARIABLES
    server_process,   \* the child: "running" or "exited"
    stdin_pipe,       \* the frames written to the child's stdin, in order
    stdout_pipe,      \* the bytes the child has written and the reader has not read
    buffer,           \* Stream.buffer of _listen_stdout, joined
    stdout_thread,    \* _listen_stdout: "read", "process" (in _process_stream) or "closed"
    reader_exc,       \* the exception the reader thread caught last
    request_map,      \* StandardIO.request_map
    command_map,      \* StandardIO.command_map
    request_id,       \* LSPClient.request_id
    issued,           \* the ids get_request_id has returned, in order
    last_call,        \* the last call of the transport's API that ended, and what it raised
    events,           \* the number of API calls and of frames the child wrote
    threads,          \* the caller threads: where each is in its call, and its locals
    sent,             \* the bodies the child has framed on its stdout, in order
    nreads,           \* the number of reads of stdout that returned data
    contents,         \* the bodies get_content has returned, in order
    calls,            \* the handler invocations, in order
    stderr_thread,    \* _listen_stderr: "read" or "closed"
    codec,            \* a message or a frame given to the codec, and what came of it
    session,          \* the fields of the LSPClient that reset_session resets
    REQUEST_LOCK,     \* REQUEST_LOCK of src/ctools.py: whether it is locked
    DOCUMENT_CHANGE_LOCK,  \* DOCUMENT_CHANGE_LOCK of src/ctools.py: whether it is locked
    loading,          \* the threads whose view is loading (view.is_loading())
    retired           \* the stdout reader thread of the transport reset_session dropped

vars ==
    <<server_process, stdin_pipe, stdout_pipe, buffer, stdout_thread, reader_exc,
      request_map, command_map, request_id, issued, last_call, events, threads,
      sent, nreads, contents, calls, stderr_thread, codec, session,
      REQUEST_LOCK, DOCUMENT_CHANGE_LOCK, loading, retired>>

\* The locks of the plugin and the views of the editor.
PluginVars == <<REQUEST_LOCK, DOCUMENT_CHANGE_LOCK, loading, retired>>

ReaderVars == <<stdout_pipe, buffer, stdout_thread, reader_exc, sent, nreads,
                contents, calls>>

\* The methods of the client's requests and of the child's notifications.
M_hover == <<"h">>
M_completion == <<"c">>
M_progress == <<"n">>
M_publishDiagnostics == <<"p">>

\* A method of the child for which the client registers nothing.
M_unregistered == <<"x">>

\* The methods whose handlers apply changes to a view, and initialize.
M_formatting == <<"f">>
M_applyEdit == <<"e">>
M_initialize == <<"I">>

RequestMethods == {M_hover, M_completion}

Methods == RequestMethods \cup {M_progress, M_publishDiagnostics}

\* The callback the client registers for each method.
HandlerOf(method) ==
    CASE method = M_hover -> "handle_hover"
      [] method = M_completion -> "handle_completion"
      [] method = M_progress -> "handle_progress"
      [] method = M_formatting -> "handle_textDocument_formatting"
      [] method = M_applyEdit -> "handle_workspace_applyEdit"
      [] method = M_initialize -> "handle_initialize"
      [] OTHER -> "handle_publishDiagnostics"

\* Whether the callback raises on the message: the handler of
\* publishDiagnostics subscripts message.params, which raises when the
\* message has none; the other handlers return.
HandlerRaises(func, message) ==
    /\ func = "handle_publishDiagnostics"
    /\ ObjGet(message, K_params).t # "obj"

NoParams == JObj(<<>>)

\* What the child writes: the responses to the first two requests, two
\* notifications, and a body that is not JSON.
Body_response(id_) == ServerDumps(JObj(RPCMessage_response(id_, JNull, JNull)))

Body_notification(method) == ServerDumps(JObj(<< <<K_method, JStr(method)>> >>))

Body_invalid == <<"{">>

ServerBodies ==
    {Body_response(1), Body_response(2), Body_notification(M_progress),
     Body_notification(M_publishDiagnostics), Body_invalid}

(***************************************************************************)
(* StandardIO.                                                             *)
(***************************************************************************)
\* send_message: the write raises BrokenPipeError once the child has exited.
send_message(pipe, message) ==
    IF server_process = "exited"
    THEN [exc |-> "BrokenPipeError", stdin |-> pipe]
    ELSE [exc |-> NoError, stdin |-> Append(pipe, to_bytes(message))]

Called(op, exc) ==
    /\ last_call' = [op |-> op, exc |-> exc]
    /\ events' = events + 1

\* StandardIO.register_command
register_command(commands, method, handler) ==
    [m \in DOMAIN commands \cup {method} |->
        IF m = method THEN handler ELSE commands[m]]

\* The callbacks of the client, one register_command per method.
RECURSIVE RegisterAll(_, _)
RegisterAll(commands, methods) ==
    IF methods = {} THEN commands
    ELSE LET method == CHOOSE m \in methods : TRUE
         IN  RegisterAll(register_command(commands, method, HandlerOf(method)),
                         methods \ {method})

\* run_server after the transport is constructed: _register_commands(),
\* then the liveness flag.
register_commands ==
    /\ command_map' = RegisterAll(command_map, Methods)
    /\ command_map' # command_map
    /\ session' = [session EXCEPT !.server_running = TRUE]
    /\ UNCHANGED <<server_process, stderr_thread, codec, PluginVars, stdin_pipe, request_map, request_id, issued,
                   last_call, events, threads, ReaderVars>>

notify(method) ==
    /\ events < MaxEvents
    /\ LET w == send_message(stdin_pipe, RPCMessage_notification(method, NoParams))
       IN  stdin_pipe' = w.stdin /\ Called("notify", w.exc)
    /\ UNCHANGED <<server_process, stderr_thread, codec, PluginVars, session, request_map, command_map, request_id, issued,
                   threads, ReaderVars>>

respond(id_) ==
    /\ events < MaxEvents
    /\ LET w == send_message(stdin_pipe, RPCMessage_response(id_, JInt(0), JNull))
       IN  stdin_pipe' = w.stdin /\ Called("respond", w.exc)
    /\ UNCHANGED <<server_process, stderr_thread, codec, PluginVars, session, request_map, command_map, request_id, issued,
                   threads, ReaderVars>>

\* LSPClient.get_request_id, run by one thread.
get_request_id(rid) == rid + 1

\* A request that records nothing in the table.
StandardIO_request_records_nothing(map, message) == map

\* StandardIO.request records the id before the message is written.
StandardIO_request(map, message) ==
    DictSet(map, ObjGet(message, K_id).n, ObjGet(message, K_method).s)

\* A request of the client: transport.request(RPCMessage.request(
\* self.get_request_id(), method, params)).
request(method) ==
    /\ events < MaxEvents
    /\ LET id_ == get_request_id(request_id)
           message == RPCMessage_request(id_, method, NoParams)
           w == send_message(stdin_pipe, message)
       IN  /\ request_id' = id_
           /\ issued' = Append(issued, id_)
           /\ request_map' = StandardIO_request(request_map, message)
           /\ stdin_pipe' = w.stdin
           /\ Called("request", w.exc)
    /\ UNCHANGED <<server_process, stderr_thread, codec, PluginVars, session, command_map, threads, ReaderVars>>

\* The frames cancel_request writes for the entries it iterates over.
RECURSIVE CancelFrames(_)
CancelFrames(items) ==
    IF Len(items) = 0 THEN <<>>
    ELSE <<to_bytes(RPCMessage_cancel_request(items[1].k))>> \o CancelFrames(Tail(items))

\* A cancel_request that sends the cancel messages and keeps the table.
cancel_request_keeps_map(map, pipe) ==
    LET items == DictItems(map)
    IN  IF Len(items) > 0 /\ server_process = "exited"
        THEN [exc |-> "BrokenPipeError", request_map |-> map, stdin |-> pipe]
        ELSE [exc |-> NoError, request_map |-> map,
              stdin |-> pipe \o CancelFrames(items)]

\* A cancel_request that writes the cancel message of the first entry alone.
cancel_request_cancels_first(map, pipe) ==
    LET items == DictItems(map)
    IN  IF Len(items) > 0 /\ server_process = "exited"
        THEN [exc |-> "BrokenPipeError", request_map |-> map, stdin |-> pipe]
        ELSE [exc |-> NoError, request_map |-> EmptyDict,
              stdin |-> pipe \o CancelFrames(SubSeq(items, 1, Min(1, Len(items))))]

\* StandardIO.cancel_request, run with no other thread touching request_map:
\* one cancel message per entry, then the map is replaced.  The first write
\* raises when the child has exited, and the map is then left as it was.
cancel_request_result(map, pipe) ==
    LET items == DictItems(map)
    IN  IF Len(items) > 0 /\ server_process = "exited"
        THEN [exc |-> "BrokenPipeError", request_map |-> map, stdin |-> pipe]
        ELSE [exc |-> NoError, request_map |-> EmptyDict,
              stdin |-> pipe \o CancelFrames(items)]

cancel_request ==
    /\ events < MaxEvents
    /\ LET c == cancel_request_result(request_map, stdin_pipe)
       IN  /\ request_map' = c.request_map
           /\ stdin_pipe' = c.stdin
           /\ Called("cancel_request", c.exc)
    /\ UNCHANGED <<server_process, stderr_thread, codec, PluginVars, session, command_map, request_id, issued, threads,
                   ReaderVars>>

(***************************************************************************)
(* The child process.                                                      *)
(***************************************************************************)
ServerWrite(body) ==
    /\ server_process # "exited"
    /\ events < MaxEvents
    /\ events' = events + 1
    /\ stdout_pipe' = stdout_pipe \o Frame(body)
    /\ sent' = Append(sent, body)
    /\ UNCHANGED <<server_process, stderr_thread, codec, PluginVars, session, stdin_pipe, buffer, stdout_thread, reader_exc,
                   request_map, command_map, request_id, issued, last_call, threads,
                   nreads, contents, calls>>

ServerExit ==
    /\ server_process # "exited"
    /\ server_process' = "exited"
    /\ UNCHANGED <<stderr_thread, codec, PluginVars, session, stdin_pipe, request_map, command_map,
                   request_id, issued,
                   last_call, events, threads, ReaderVars>>

(***************************************************************************)
(* The stdout reader thread.                                               *)
(***************************************************************************)
\* A read loop whose except clause catches ValueError alone.
catches_ValueError_only(exc) == IsValueError(exc)

\* A read loop whose except clause catches the errors of handlers alone.
catches_handler_errors_only(exc) == exc = "Exception"

\* The except clause of _process_stream around handle_received_message.
process_stream_catches(exc) == IsException(exc)

\* A dispatcher that looks the id up and leaves it in the table.
handle_received_message_keeps_id(message, map, commands) ==
    LET method == ObjGet(message, K_method)
        message_id == ObjGet(message, K_id)
        is_response == ~Truthy(method)
        known == message_id.t = "int" /\ DictHas(map, message_id.n)
        found == IF is_response THEN JStr(DictGet(map, message_id.n)) ELSE method
        none == [exc |-> "ValueError", request_map |-> map, calls |-> <<>>]
    IN  IF is_response /\ ~known THEN none
        ELSE IF ~(found.t = "str" /\ found.s \in DOMAIN commands) THEN none
        ELSE LET func == commands[found.s]
             IN  [exc |-> IF HandlerRaises(func, message) THEN "Exception" ELSE NoError,
                  request_map |-> map,
                  calls |-> <<[func |-> func, message |-> message]>>]

\* A dispatcher that hands a message of an unregistered method to a default
\* handler.
handle_received_message_by_default(message, map, commands) ==
    LET method == ObjGet(message, K_method)
        message_id == ObjGet(message, K_id)
        is_response == ~Truthy(method)
        known == message_id.t = "int" /\ DictHas(map, message_id.n)
        popped == IF is_response /\ known THEN DictPop(map, message_id.n) ELSE map
        found == IF is_response THEN JStr(DictGet(map, message_id.n)) ELSE method
        none == [exc |-> "ValueError", request_map |-> popped, calls |-> <<>>]
    IN  IF is_response /\ ~known THEN none
        ELSE LET func == IF found.t = "str" /\ found.s \in DOMAIN commands
                         THEN commands[found.s] ELSE "handle_default"
             IN  [exc |-> IF HandlerRaises(func, message) THEN "Exception" ELSE NoError,
                  request_map |-> popped,
                  calls |-> <<[func |-> func, message |-> message]>>]

\* A dispatcher that removes the id of every message that carries a pending
\* id, a request or a notification of the child included.
handle_received_message_pops_any_id(message, map, commands) ==
    LET method == ObjGet(message, K_method)
        message_id == ObjGet(message, K_id)
        is_response == ~Truthy(method)
        known == message_id.t = "int" /\ DictHas(map, message_id.n)
        popped == IF known THEN DictPop(map, message_id.n) ELSE map
        found == IF is_response THEN JStr(DictGet(map, message_id.n)) ELSE method
        none == [exc |-> "ValueError", request_map |-> popped, calls |-> <<>>]
    IN  IF is_response /\ ~known THEN none
        ELSE IF ~(found.t = "str" /\ found.s \in DOMAIN commands) THEN none
        ELSE LET func == commands[found.s]
             IN  [exc |-> IF HandlerRaises(func, message) THEN "Exception" ELSE NoError,
                  request_map |-> popped,
                  calls |-> <<[func |-> func, message |-> message]>>]

\* A dispatcher that takes the id from the table only when it has found the
\* handler of the method.
handle_received_message_pops_when_found(message, map, commands) ==
    LET method == ObjGet(message, K_method)
        message_id == ObjGet(message, K_id)
        is_response == ~Truthy(method)
        known == message_id.t = "int" /\ DictHas(map, message_id.n)
        popped == IF is_response /\ known THEN DictPop(map, message_id.n) ELSE map
        found == IF is_response THEN JStr(DictGet(map, message_id.n)) ELSE method
        none == [exc |-> "ValueError", request_map |-> map, calls |-> <<>>]
    IN  IF is_response /\ ~known THEN none
        ELSE IF ~(found.t = "str" /\ found.s \in DOMAIN commands) THEN none
        ELSE LET func == commands[found.s]
             IN  [exc |-> IF HandlerRaises(func, message) THEN "Exception" ELSE NoError,
                  request_map |-> popped,
                  calls |-> <<[func |-> func, message |-> message]>>]

\* handle_received_message: the exception it raises, the request_map it
\* leaves and the handler invocation it makes (none: the empty sequence).
handle_received_message(message, map, commands) ==
    LET method == ObjGet(message, K_method)
        message_id == ObjGet(message, K_id)
        is_response == ~Truthy(method)
        known == message_id.t = "int" /\ DictHas(map, message_id.n)
        popped == IF is_response /\ known THEN DictPop(map, message_id.n) ELSE map
        found == IF is_response THEN JStr(DictGet(map, message_id.n)) ELSE method
        none == [exc |-> "ValueError", request_map |-> popped, calls |-> <<>>]
    IN  IF is_response /\ ~known
        THEN [none EXCEPT !.exc = IF message_id.t = "obj" THEN "TypeError"
                                  ELSE "ValueError"]
        ELSE IF found.t = "obj" THEN [none EXCEPT !.exc = "TypeError"]
        ELSE IF ~(found.t = "str" /\ found.s \in DOMAIN commands) THEN none
        ELSE LET func == commands[found.s]
             IN  [exc |-> IF HandlerRaises(func, message) THEN "Exception" ELSE NoError,
                  request_map |-> popped,
                  calls |-> <<[func |-> func, message |-> message]>>]

\* stdout.read(BUFFER_LENGTH) returns n bytes, which are put in the stream.
listen_stdout_read(n) ==
    /\ stdout_thread = "read"
    /\ n \in 1..Min(Len(stdout_pipe), BUFFER_LENGTH)
    /\ buffer' = Stream_put(buffer, SubSeq(stdout_pipe, 1, n))
    /\ stdout_pipe' = Drop(stdout_pipe, n + 1)
    /\ stdout_thread' = "process"
    /\ UNCHANGED <<server_process, stderr_thread, codec, PluginVars, session, stdin_pipe, reader_exc, request_map, command_map,
                   request_id, issued, last_call, events, threads, sent, contents,
                   calls>>

\* stdout.read returns b"" at end-of-stream: the thread returns.
listen_stdout_closed ==
    /\ stdout_thread = "read"
    /\ stdout_pipe = <<>>
    /\ server_process = "exited"
    /\ stdout_thread' = "closed"
    /\ UNCHANGED <<server_process, stderr_thread, codec, PluginVars, session, stdin_pipe, stdout_pipe, buffer, reader_exc,
                   request_map, command_map, request_id, issued, last_call, events,
                   threads, sent, nreads, contents, calls>>

\* One turn of the loop of _process_stream.  An exception that leaves it is
\* caught in _listen_stdout, which goes back to read.
process_stream ==
    /\ stdout_thread = "process"
    /\ LET r == get_content(buffer)
           m == from_str(r.content)
           h == handle_received_message(m.message, request_map, command_map)
       IN  /\ buffer' = r.buffer
           /\ IF r.exc # NoError
              THEN /\ reader_exc' = r.exc
                   /\ stdout_thread' = "read"
                   /\ UNCHANGED <<request_map, contents, calls>>
              ELSE /\ contents' = Append(contents, r.content)
                   /\ IF m.exc # NoError
                      THEN /\ reader_exc' = m.exc
                           /\ stdout_thread' = "read"
                           /\ UNCHANGED <<request_map, calls>>
                      ELSE /\ reader_exc' = h.exc
                           /\ request_map' = h.request_map
                           /\ calls' = calls \o h.calls
                           /\ stdout_thread' =
                                 IF h.exc = NoError \/ process_stream_catches(h.exc)
                                 THEN "process" ELSE "read"
    /\ UNCHANGED <<server_process, stderr_thread, codec, PluginVars, session, stdin_pipe, stdout_pipe, command_map, request_id,
                   issued, last_call, events, threads, sent, nreads>>

(***************************************************************************)
(* Spec: the transport with its callers and the child.  Each call of the   *)
(* API is one step, and a read of stdout returns all the child has         *)
(* written.                                                                *)
(***************************************************************************)
\* Nothing has been given to the codec.
NoCodec ==
    [op |-> "none", message |-> <<>>, extra |-> "none", declared |-> "exact",
     exc |-> NoError, frame |-> <<>>, out |-> <<>>, content |-> <<>>,
     buffer |-> <<>>]

Callers == {"ui", "task"}

Idle == [pc |-> "idle", method |-> <<>>, tmp |-> 0, id |-> 0,
         it |-> [pos |-> 0, used |-> 0, len |-> 0]]

Init ==
    /\ server_process = "running"
    /\ stdin_pipe = <<>>
    /\ stdout_pipe = <<>>
    /\ buffer = <<>>
    /\ stdout_thread = "read"
    /\ reader_exc = NoError
    /\ request_map = EmptyDict
    /\ command_map = [m \in {} |-> "handle_hover"]
    /\ request_id = 0
    /\ issued = <<>>
    /\ last_call = [op |-> "init", exc |-> NoError]
    /\ events = 0
    /\ threads = [t \in Callers |-> Idle]
    /\ sent = <<>>
    /\ nreads = 0
    /\ contents = <<>>
    /\ calls = <<>>
    /\ stderr_thread = "read"
    /\ codec = NoCodec
    /\ session = [SessionStarted EXCEPT !.server_running = FALSE]
    /\ REQUEST_LOCK = FALSE
    /\ DOCUMENT_CHANGE_LOCK = FALSE
    /\ loading = {}
    /\ retired = NoReader

Next ==
    \/ register_commands
    \/ \E method \in RequestMethods : request(method)
    \/ notify(M_progress)
    \/ respond(1)
    \/ cancel_request
    \/ \E body \in ServerBodies : ServerWrite(body)
    \/ ServerExit
    \/ listen_stdout_read(Len(stdout_pipe)) /\ UNCHANGED nreads
    \/ listen_stdout_closed
    \/ process_stream

Spec == Init /\ [][Next]_vars

(***************************************************************************)
(* SpecStream: the reader thread alone, on what the child wrote before it  *)
(* exited, read in any pieces.  The client has registered its callbacks    *)
(* and its first two requests are pending.                                 *)
(***************************************************************************)
RECURSIVE Frames(_)
Frames(bodies) ==
    IF Len(bodies) = 0 THEN <<>> ELSE Frame(bodies[1]) \o Frames(Tail(bodies))

StreamInputs ==
    {<<b>> : b \in ServerBodies}
    \cup {<<Body_response(1), Body_notification(M_progress)>>,
          <<Body_notification(M_publishDiagnostics), Body_response(1)>>,
          <<Body_invalid, Body_response(1)>>,
          <<Body_notification(M_unregistered), Body_response(1)>>}

InitStream ==
    /\ server_process = "exited"
    /\ stdin_pipe = <<>>
    /\ sent \in StreamInputs
    /\ stdout_pipe = Frames(sent)
    /\ buffer = <<>>
    /\ stdout_thread = "read"
    /\ reader_exc = NoError
    /\ request_map = DictSet(DictSet(EmptyDict, 1, M_hover), 2, M_completion)
    /\ command_map = RegisterAll([m \in {} |-> "handle_hover"], Methods)
    /\ request_id = 2
    /\ issued = <<1, 2>>
    /\ last_call = [op |-> "request", exc |-> NoError]
    /\ events = 0
    /\ threads = [t \in Callers |-> Idle]
    /\ nreads = 0
    /\ contents = <<>>
    /\ calls = <<>>
    /\ stderr_thread = "read"
    /\ codec = NoCodec
    /\ session = SessionStarted
    /\ REQUEST_LOCK = FALSE
    /\ DOCUMENT_CHANGE_LOCK = FALSE
    /\ loading = {}
    /\ retired = NoReader

NextStream ==
    \/ \E n \in 1..Len(stdout_pipe) :
          /\ nreads < MaxReads
          /\ listen_stdout_read(n)
          /\ nreads' = nreads + 1
    \/ listen_stdout_closed
    \/ process_stream

SpecStream == InitStream /\ [][NextStream]_vars

(***************************************************************************)
(* SpecResync: the reader thread on a stream in which the child wrote      *)
(* bytes that are no frame before a frame.                                 *)
(***************************************************************************)
\* What the child wrote outside any frame: a line and the separator.
Garbage == <<"a">> \o separator

ResyncInputs == {<<Body_response(1)>>, <<Body_notification(M_progress)>>}

InitResync ==
    /\ server_process = "exited"
    /\ stdin_pipe = <<>>
    /\ sent \in ResyncInputs
    /\ stdout_pipe = Garbage \o Frames(sent)
    /\ buffer = <<>>
    /\ stdout_thread = "read"
    /\ reader_exc = NoError
    /\ request_map = DictSet(DictSet(EmptyDict, 1, M_hover), 2, M_completion)
    /\ command_map = RegisterAll([m \in {} |-> "handle_hover"], Methods)
    /\ request_id = 2
    /\ issued = <<1, 2>>
    /\ last_call = [op |-> "request", exc |-> NoError]
    /\ events = 0
    /\ threads = [t \in Callers |-> Idle]
    /\ nreads = 0
    /\ contents = <<>>
    /\ calls = <<>>
    /\ stderr_thread = "read"
    /\ codec = NoCodec
    /\ session = SessionStarted
    /\ REQUEST_LOCK = FALSE
    /\ DOCUMENT_CHANGE_LOCK = FALSE
    /\ loading = {}
    /\ retired = NoReader

SpecResync == InitResync /\ [][NextStream]_vars

(***************************************************************************)
(* SpecConc: the caller threads run their calls one bytecode-level step at *)
(* a time, interleaved with each other and with the reader thread.  The    *)
(* UI thread and a task thread send requests; the UI thread alone calls    *)
(* cancel_request (from on_text_changed).                                  *)
(***************************************************************************)
At(t, pc) == threads[t].pc = pc

Goto(t, rec) == threads' = [threads EXCEPT ![t] = rec]

Returned(t, op, exc) ==
    /\ Goto(t, Idle)
    /\ last_call' = [op |-> op, exc |-> exc]

begin_request(t, method) ==
    /\ At(t, "idle")
    /\ events < MaxEvents
    /\ events' = events + 1
    /\ Goto(t, [Idle EXCEPT !.pc = "load_request_id", !.method = method])
    /\ UNCHANGED <<server_process, stderr_thread, codec, PluginVars, session, stdin_pipe, request_map, command_map, request_id,
                   issued, last_call, ReaderVars>>

\* self.request_id += 1 loads the attribute ...
get_request_id_load(t) ==
    /\ At(t, "load_request_id")
    /\ Goto(t, [threads[t] EXCEPT !.pc = "store_request_id", !.tmp = request_id])
    /\ UNCHANGED <<server_process, stderr_thread, codec, PluginVars, session, stdin_pipe, request_map, command_map, request_id,
                   issued, last_call, events, ReaderVars>>

\* ... and stores the sum;
get_request_id_store(t) ==
    /\ At(t, "store_request_id")
    /\ request_id' = get_request_id(threads[t].tmp)
    /\ Goto(t, [threads[t] EXCEPT !.pc = "return_request_id"])
    /\ UNCHANGED <<server_process, stderr_thread, codec, PluginVars, session, stdin_pipe, request_map, command_map, issued,
                   last_call, events, ReaderVars>>

\* return self.request_id loads the attribute again.
get_request_id_return(t) ==
    /\ At(t, "return_request_id")
    /\ issued' = Append(issued, request_id)
    /\ Goto(t, [threads[t] EXCEPT !.pc = "request_store", !.id = request_id])
    /\ UNCHANGED <<server_process, stderr_thread, codec, PluginVars, session, stdin_pipe, request_map, command_map, request_id,
                   last_call, events, ReaderVars>>

\* self.request_map[message["id"]] = message["method"]
request_store(t) ==
    /\ At(t, "request_store")
    /\ request_map' =
          StandardIO_request(request_map,
              RPCMessage_request(threads[t].id, threads[t].method, NoParams))
    /\ Goto(t, [threads[t] EXCEPT !.pc = "request_send"])
    /\ UNCHANGED <<server_process, stderr_thread, codec, PluginVars, session, stdin_pipe, command_map, request_id, issued,
                   last_call, events, ReaderVars>>

\* self.send_message(message)
request_send(t) ==
    /\ At(t, "request_send")
    /\ LET w == send_message(stdin_pipe,
                    RPCMessage_request(threads[t].id, threads[t].method, NoParams))
       IN  stdin_pipe' = w.stdin /\ Returned(t, "request", w.exc)
    /\ UNCHANGED <<server_process, stderr_thread, codec, PluginVars, session, request_map, command_map, request_id, issued,
                   events, ReaderVars>>

\* for req_id, _ in self.request_map.items(): the iterator remembers the
\* number of entries of the dict.
begin_cancel(t) ==
    /\ At(t, "idle")
    /\ events < MaxEvents
    /\ events' = events + 1
    /\ Goto(t, [Idle EXCEPT !.pc = "cancel_next",
                            !.it = [pos |-> 1, used |-> DictLen(request_map),
                                    len |-> DictLen(request_map)]])
    /\ UNCHANGED <<server_process, stderr_thread, codec, PluginVars, session, stdin_pipe, request_map, command_map, request_id,
                   issued, last_call, ReaderVars>>

\* The place of the next live entry at or after pos; past the end if none.
NextEntry(d, pos) ==
    IF \E i \in pos..Len(d) : d[i].live
    THEN CHOOSE i \in pos..Len(d) : d[i].live /\ \A j \in pos..(i - 1) : ~d[j].live
    ELSE Len(d) + 1

\* next() of the dict's item iterator: RuntimeError when the dict has changed
\* size, or when it finds an entry after it has returned as many as the dict
\* had; the loop ends when no entry is left.
cancel_next(t) ==
    /\ At(t, "cancel_next")
    /\ LET it == threads[t].it
           i == NextEntry(request_map, it.pos)
       IN  IF it.used # DictLen(request_map) \/ (i <= Len(request_map) /\ it.len = 0)
           THEN Returned(t, "cancel_request", "RuntimeError")
           ELSE /\ UNCHANGED last_call
                /\ IF i > Len(request_map)
                   THEN Goto(t, [threads[t] EXCEPT !.pc = "cancel_clear"])
                   ELSE Goto(t, [threads[t] EXCEPT
                                    !.pc = "cancel_send",
                                    !.id = request_map[i].k,
                                    !.it = [it EXCEPT !.pos = i + 1,
                                                      !.len = it.len - 1]])
    /\ UNCHANGED <<server_process, stderr_thread, codec, PluginVars, session, stdin_pipe, request_map, command_map, request_id,
                   issued, events, ReaderVars>>

\* self.send_message(RPCMessage.cancel_request(req_id))
cancel_send(t) ==
    /\ At(t, "cancel_send")
    /\ LET w == send_message(stdin_pipe, RPCMessage_cancel_request(threads[t].id))
       IN  /\ stdin_pipe' = w.stdin
           /\ IF w.exc # NoError
              THEN Returned(t, "cancel_request", w.exc)
              ELSE /\ Goto(t, [threads[t] EXCEPT !.pc = "cancel_next"])
                   /\ UNCHANGED last_call
    /\ UNCHANGED <<server_process, stderr_thread, codec, PluginVars, session, request_map, command_map, request_id, issued,
                   events, ReaderVars>>

\* self.request_map = {}
cancel_clear(t) ==
    /\ At(t, "cancel_clear")
    /\ request_map' = EmptyDict
    /\ Returned(t, "cancel_request", NoError)
    /\ UNCHANGED <<server_process, stderr_thread, codec, PluginVars, session, stdin_pipe, command_map, request_id, issued,
                   events, ReaderVars>>

InitConc ==
    /\ server_process = "running"
    /\ stdin_pipe = <<>>
    /\ stdout_pipe = <<>>
    /\ buffer = <<>>
    /\ stdout_thread = "read"
    /\ reader_exc = NoError
    /\ request_map = EmptyDict
    /\ command_map = RegisterAll([m \in {} |-> "handle_hover"], Methods)
    /\ request_id = 0
    /\ issued = <<>>
    /\ last_call = [op |-> "init", exc |-> NoError]
    /\ events = 0
    /\ threads = [t \in Callers |-> Idle]
    /\ sent = <<>>
    /\ nreads = 0
    /\ contents = <<>>
    /\ calls = <<>>
    /\ stderr_thread = "read"
    /\ codec = NoCodec
    /\ session = SessionStarted
    /\ REQUEST_LOCK = FALSE
    /\ DOCUMENT_CHANGE_LOCK = FALSE
    /\ loading = {}
    /\ retired = NoReader

NextConc ==
    \/ \E t \in Callers : begin_request(t, M_hover)
    \/ \E t \in Callers : get_request_id_load(t)
    \/ \E t \in Callers : get_request_id_store(t)
    \/ \E t \in Callers : get_request_id_return(t)
    \/ \E t \in Callers : request_store(t)
    \/ \E t \in Callers : request_send(t)
    \/ begin_cancel("ui")
    \/ cancel_next("ui")
    \/ cancel_send("ui")
    \/ cancel_clear("ui")
    \/ \E id_ \in {1, 2} : ServerWrite(Body_response(id_))
    \/ listen_stdout_read(Len(stdout_pipe)) /\ UNCHANGED nreads
    \/ process_stream

SpecConc == InitConc /\ [][NextConc]_vars

(***************************************************************************)
(* SpecCodec: the encoders and the decoders, each applied once to a        *)
(* message or to the frame of a message drawn from bounded sets.           *)
(***************************************************************************)
TransportVars ==
    <<server_process, stdin_pipe, stdout_pipe, buffer, stdout_thread, reader_exc,
      request_map, command_map, request_id, issued, last_call, events, threads,
      sent, nreads, contents, calls, stderr_thread, session, PluginVars>>

\* The dicts with the key absent or with one of the values.
Optional(key, values) == {<<>>} \cup {<< <<key, v>> >> : v \in values}

OtherVersion == <<"1", ".", "0">>

\* The messages given to the codec: every combination of the fields.
CodecMessages ==
    {j \o i \o m \o p \o r \o e :
        j \in Optional(K_jsonrpc, {JStr(OtherVersion), JStr(JSONRPC_VERSION)}),
        i \in Optional(K_id, {JInt(1), JInt(2)}),
        m \in Optional(K_method, {JStr(M_hover)}),
        p \in Optional(K_params, {NoParams}),
        r \in Optional(K_result, {JInt(0)}),
        e \in Optional(K_error, {JObj(<< <<<<"c", "o", "d", "e">>, JInt(1)>> >>)})}

\* A header line that is not Content-Length.
OtherHeader == <<"C", "o", "n", "t", "e", "n", "t", "-", "T", "y", "p", "e", ":", " ", "a">>

\* The frame the child writes for the message: the header block has the
\* Content-Length line alone, or another line before or after it, or the
\* other line alone; the length it declares is the length of the body, or
\* three bytes less.
InboundBody(c) == ServerDumps(JObj(c.message))

InboundFrame(c) ==
    LET body == InboundBody(c)
        length == IF c.declared = "short" /\ Len(body) > 3
                  THEN Len(body) - 3 ELSE Len(body)
        line == ContentLengthField \o IntToChars(length)
    IN  (CASE c.extra = "before" -> OtherHeader \o <<CR, LF>> \o line
           [] c.extra = "after" -> line \o <<CR, LF>> \o OtherHeader
           [] c.extra = "only" -> OtherHeader
           [] OTHER -> line)
        \o separator \o body

\* message.to_bytes()
call_to_bytes ==
    /\ codec.op = "none"
    /\ codec' = [codec EXCEPT !.op = "to_bytes", !.frame = to_bytes(codec.message)]
    /\ UNCHANGED TransportVars

\* JSONMessage(data).to_bytes() of src/plugin/context.py
call_JSONMessage_to_bytes(linesep) ==
    /\ codec.op = "none"
    /\ codec' = [codec EXCEPT
                    !.op = "JSONMessage.to_bytes",
                    !.frame = JSONMessage_to_bytes(JSONMessage(codec.message), linesep)]
    /\ UNCHANGED TransportVars

\* RPCMessage.from_bytes(message.to_bytes())
call_from_bytes_of_to_bytes ==
    /\ codec.op = "none"
    /\ LET r == from_bytes(to_bytes(codec.message))
       IN  codec' = [codec EXCEPT !.op = "from_bytes(to_bytes)",
                                  !.frame = to_bytes(codec.message),
                                  !.exc = r.exc, !.out = r.message]
    /\ UNCHANGED TransportVars

\* RPCMessage.from_bytes(frame)
call_from_bytes ==
    /\ codec.op = "none"
    /\ LET r == from_bytes(InboundFrame(codec))
       IN  codec' = [codec EXCEPT !.op = "from_bytes", !.frame = InboundFrame(codec),
                                  !.exc = r.exc, !.out = r.message]
    /\ UNCHANGED TransportVars

\* stream = Stream(); stream.put(frame); stream.get_content()
call_get_content ==
    /\ codec.op = "none"
    /\ LET r == get_content(Stream_put(<<>>, InboundFrame(codec)))
       IN  codec' = [codec EXCEPT !.op = "get_content", !.frame = InboundFrame(codec),
                                  !.exc = r.exc, !.content = r.content,
                                  !.buffer = r.buffer]
    /\ UNCHANGED TransportVars

InitCodec ==
    /\ server_process = "running"
    /\ stdin_pipe = <<>>
    /\ stdout_pipe = <<>>
    /\ buffer = <<>>
    /\ stdout_thread = "read"
    /\ reader_exc = NoError
    /\ request_map = EmptyDict
    /\ command_map = [m \in {} |-> "handle_hover"]
    /\ request_id = 0
    /\ issued = <<>>
    /\ last_call = [op |-> "init", exc |-> NoError]
    /\ events = 0
    /\ threads = [t \in Callers |-> Idle]
    /\ sent = <<>>
    /\ nreads = 0
    /\ contents = <<>>
    /\ calls = <<>>
    /\ stderr_thread = "read"
    /\ codec \in {[NoCodec EXCEPT !.message = m, !.extra = x, !.declared = d] :
                    m \in CodecMessages, x \in {"none", "before", "after", "only"},
                    d \in {"exact", "short"}}
    /\ session = SessionStarted
    /\ REQUEST_LOCK = FALSE
    /\ DOCUMENT_CHANGE_LOCK = FALSE
    /\ loading = {}
    /\ retired = NoReader

NextCodec ==
    \/ call_to_bytes
    \/ \E linesep \in {<<LF>>, <<CR, LF>>} : call_JSONMessage_to_bytes(linesep)
    \/ call_from_bytes_of_to_bytes
    \/ call_from_bytes
    \/ call_get_content

SpecCodec == InitCodec /\ [][NextCodec]_vars

(***************************************************************************)
(* SpecLife: the end of the transport.  terminate() signals the child,     *)
(* which exits when it will; each reader thread returns when its read      *)
(* finds the end of the stream.                                            *)
(***************************************************************************)
\* A terminate that raises when the child has already exited.
terminate_raises_after_exit(process) ==
    [exc |-> IF process = "exited" THEN "ProcessLookupError" ELSE NoError,
     server_process |-> IF process = "running" THEN "signalled" ELSE process]

\* Popen.terminate(): the signal is sent to a child that has not been waited
\* for, whether or not it still runs; nothing is raised.
terminate_result(process) ==
    [exc |-> NoError,
     server_process |-> IF process = "running" THEN "signalled" ELSE process]

\* StandardIO.terminate
terminate ==
    /\ events < MaxEvents
    /\ LET r == terminate_result(server_process)
       IN  /\ server_process' = r.server_process
           /\ Called("terminate", r.exc)
    /\ UNCHANGED <<stderr_thread, codec, PluginVars, session, stdin_pipe, request_map, command_map,
                   request_id, issued, threads, ReaderVars>>

\* stderr.read returns b"" at end-of-stream: the thread returns.
listen_stderr_closed ==
    /\ stderr_thread = "read"
    /\ server_process = "exited"
    /\ stderr_thread' = "closed"
    /\ UNCHANGED <<server_process, codec, PluginVars, session, stdin_pipe, request_map, command_map,
                   request_id, issued, last_call, events, threads, ReaderVars>>

InitLife ==
    /\ server_process = "running"
    /\ stdin_pipe = <<>>
    /\ stdout_pipe = <<>>
    /\ buffer = <<>>
    /\ stdout_thread = "read"
    /\ reader_exc = NoError
    /\ request_map = EmptyDict
    /\ command_map = RegisterAll([m \in {} |-> "handle_hover"], Methods)
    /\ request_id = 0
    /\ issued = <<>>
    /\ last_call = [op |-> "init", exc |-> NoError]
    /\ events = 0
    /\ threads = [t \in Callers |-> Idle]
    /\ sent = <<>>
    /\ nreads = 0
    /\ contents = <<>>
    /\ calls = <<>>
    /\ stderr_thread = "read"
    /\ codec = NoCodec
    /\ session = SessionStarted
    /\ REQUEST_LOCK = FALSE
    /\ DOCUMENT_CHANGE_LOCK = FALSE
    /\ loading = {}
    /\ retired = NoReader

NextLife ==
    \/ terminate
    \/ request(M_hover)
    \/ \E body \in ServerBodies : ServerWrite(body)
    \/ ServerExit
    \/ listen_stdout_read(Len(stdout_pipe)) /\ UNCHANGED nreads
    \/ listen_stdout_closed
    \/ listen_stderr_closed
    \/ process_stream

SpecLife == InitLife /\ [][NextLife]_vars

(***************************************************************************)
(* SpecSession: the client of src/ctools.py over its sessions.  It starts  *)
(* with no transport; run_server constructs one, shutdown_server resets    *)
(* the session.  The transport variables describe the transport that was   *)
(* constructed last: what is left of an earlier one is out of the          *)
(* client's reach and is not followed.                                     *)
(***************************************************************************)
M_initialized == <<"i">>
M_didOpen == <<"o">>
M_didChange == <<"d">>

K_version == <<"v", "e", "r", "s", "i", "o", "n">>

\* The documents the editor has, and their texts.
Documents == {"a.cpp"}
Sources == {"s", "t"}

\* The operations of the client that write a request or a notification.
SendingOperations ==
    {"textDocument_hover", "textDocument_didOpen", "textDocument_didChange",
     "initialized", "cancelRequest"}

VersionParams(version) == JObj(<< <<K_version, JInt(version)>> >>)

\* self.transport.notify(message): the attribute lookup raises when
\* self.transport is None.
transport_notify(s, pipe, message) ==
    IF s.transport = 0
    THEN [exc |-> "AttributeError", stdin |-> pipe]
    ELSE send_message(pipe, message)

\* ClangdClient.run_server, called when no server runs: a new StandardIO
\* (its child, its pipes, its two reader threads, its empty tables), the
\* callbacks registered on it, then the liveness flag.  When clangd is not
\* found the constructor raises and nothing is assigned.
run_server(found) ==
    /\ events < MaxEvents
    /\ ~session.server_running
    /\ IF found
       THEN /\ server_process' = "running"
            /\ stdin_pipe' = <<>>
            /\ stdout_pipe' = <<>>
            /\ buffer' = <<>>
            /\ stdout_thread' = "read"
            /\ stderr_thread' = "read"
            /\ reader_exc' = NoError
            /\ request_map' = EmptyDict
            /\ command_map' = RegisterAll([m \in {} |-> "handle_hover"], Methods)
            /\ sent' = <<>>
            /\ contents' = <<>>
            /\ calls' = <<>>
            /\ session' = [session EXCEPT !.transport = session.constructed + 1,
                                          !.constructed = session.constructed + 1,
                                          !.server_running = TRUE]
            /\ Called("run_server", NoError)
       ELSE /\ Called("run_server", "FileNotFoundError")
            /\ UNCHANGED <<server_process, stdin_pipe, stdout_pipe, buffer,
                           stdout_thread, stderr_thread, reader_exc, request_map,
                           command_map, sent, contents, calls, session>>
    /\ UNCHANGED <<request_id, issued, threads, nreads, codec, PluginVars>>

\* ClangdClient.shutdown_server: reset_session when the flag is set.
shutdown_server ==
    /\ events < MaxEvents
    /\ IF session.server_running
       THEN /\ server_process' =
                  IF session.transport # 0
                  THEN terminate_result(server_process).server_process
                  ELSE server_process
            /\ session' = reset_session(session)
            /\ request_id' = 0
       ELSE UNCHANGED <<server_process, session, request_id>>
    /\ Called("shutdown_server", NoError)
    /\ UNCHANGED <<stdin_pipe, request_map, command_map, issued, threads, codec, PluginVars,
                   stderr_thread, ReaderVars>>

\* LSPClient.textDocument_hover
textDocument_hover ==
    /\ events < MaxEvents
    /\ IF ~session.server_running
       THEN /\ Called("textDocument_hover", "ServerOffline")
            /\ UNCHANGED <<request_id, issued, request_map, stdin_pipe>>
       ELSE IF session.transport = 0
       THEN /\ Called("textDocument_hover", "AttributeError")
            /\ UNCHANGED <<request_id, issued, request_map, stdin_pipe>>
       ELSE LET id_ == get_request_id(request_id)
                message == RPCMessage_request(id_, M_hover, NoParams)
                w == send_message(stdin_pipe, message)
            IN  /\ request_id' = id_
                /\ issued' = Append(issued, id_)
                /\ request_map' = StandardIO_request(request_map, message)
                /\ stdin_pipe' = w.stdin
                /\ Called("textDocument_hover", w.exc)
    /\ UNCHANGED <<server_process, stderr_thread, codec, PluginVars, session, command_map,
                   threads, ReaderVars>>

\* LSPClient.textDocument_didOpen
textDocument_didOpen(file_name, source) ==
    /\ events < MaxEvents
    /\ IF ~session.server_running
       THEN /\ Called("textDocument_didOpen", "ServerOffline")
            /\ UNCHANGED <<session, stdin_pipe>>
       ELSE IF session.active_document = file_name /\ session.source = source
       THEN /\ Called("textDocument_didOpen", NoError)
            /\ UNCHANGED <<session, stdin_pipe>>
       ELSE LET v == get_document_version(session.document_version_map,
                                          file_name, TRUE)
                w == transport_notify(session, stdin_pipe,
                        RPCMessage_notification(M_didOpen, VersionParams(v.version)))
            IN  /\ session' = [session EXCEPT
                                  !.active_document = file_name,
                                  !.source = source,
                                  !.document_version_map = v.document_version_map]
                /\ stdin_pipe' = w.stdin
                /\ Called("textDocument_didOpen", w.exc)
    /\ UNCHANGED <<server_process, stderr_thread, codec, PluginVars, request_map, command_map,
                   request_id, issued, threads, ReaderVars>>

\* LSPClient.textDocument_didChange
textDocument_didChange(file_name) ==
    /\ events < MaxEvents
    /\ IF ~session.server_running
       THEN /\ Called("textDocument_didChange", "ServerOffline")
            /\ UNCHANGED <<session, stdin_pipe>>
       ELSE LET v == get_document_version(session.document_version_map,
                                          file_name, FALSE)
                w == transport_notify(session, stdin_pipe,
                        RPCMessage_notification(M_didChange, VersionParams(v.version)))
            IN  /\ session' = [session EXCEPT
                                  !.document_version_map = v.document_version_map]
                /\ stdin_pipe' = w.stdin
                /\ Called("textDocument_didChange", w.exc)
    /\ UNCHANGED <<server_process, stderr_thread, codec, PluginVars, request_map, command_map,
                   request_id, issued, threads, ReaderVars>>

\* LSPClient.initialized: the notification, then the flag.
initialized ==
    /\ events < MaxEvents
    /\ LET w == transport_notify(session, stdin_pipe,
                   RPCMessage_notification(M_initialized, NoParams))
       IN  /\ stdin_pipe' = w.stdin
           /\ session' = IF w.exc = NoError
                         THEN [session EXCEPT !.is_initialized = TRUE]
                         ELSE session
           /\ Called("initialized", w.exc)
    /\ UNCHANGED <<server_process, stderr_thread, codec, PluginVars, request_map, command_map,
                   request_id, issued, threads, ReaderVars>>

\* LSPClient.cancelRequest
cancelRequest ==
    /\ events < MaxEvents
    /\ IF session.transport = 0
       THEN /\ Called("cancelRequest", "AttributeError")
            /\ UNCHANGED <<request_map, stdin_pipe>>
       ELSE LET c == cancel_request_result(request_map, stdin_pipe)
            IN  /\ request_map' = c.request_map
                /\ stdin_pipe' = c.stdin
                /\ Called("cancelRequest", c.exc)
    /\ UNCHANGED <<server_process, stderr_thread, codec, PluginVars, session, command_map,
                   request_id, issued, threads, ReaderVars>>

\* The child of the transport exits.
SessionServerExit ==
    /\ server_process \in {"running", "signalled"}
    /\ ServerExit

\* The state after ClangdClient(): no transport, no child, no thread.
InitSession ==
    /\ server_process = "none"
    /\ stdin_pipe = <<>>
    /\ stdout_pipe = <<>>
    /\ buffer = <<>>
    /\ stdout_thread = "none"
    /\ reader_exc = NoError
    /\ request_map = EmptyDict
    /\ command_map = [m \in {} |-> "handle_hover"]
    /\ request_id = 0
    /\ issued = <<>>
    /\ last_call = [op |-> "init", exc |-> NoError]
    /\ events = 0
    /\ threads = [t \in Callers |-> Idle]
    /\ sent = <<>>
    /\ nreads = 0
    /\ contents = <<>>
    /\ calls = <<>>
    /\ stderr_thread = "none"
    /\ codec = NoCodec
    /\ session = LSPClient_init
    /\ REQUEST_LOCK = FALSE
    /\ DOCUMENT_CHANGE_LOCK = FALSE
    /\ loading = {}
    /\ retired = NoReader

NextSession ==
    \/ \E found \in BOOLEAN : run_server(found)
    \/ shutdown_server
    \/ textDocument_hover
    \/ \E file_name \in Documents, source \in Sources :
          textDocument_didOpen(file_name, source)
    \/ \E file_name \in Documents : textDocument_didChange(file_name)
    \/ initialized
    \/ cancelRequest
    \/ SessionServerExit
    \/ listen_stdout_closed
    \/ listen_stderr_closed

SpecSession == InitSession /\ [][NextSession]_vars

\* The reader threads run: a read that can return does return.
SpecSessionLive ==
    /\ SpecSession
    /\ WF_vars(listen_stdout_closed)
    /\ WF_vars(listen_stderr_closed)

(***************************************************************************)
(* SpecContext: the stdout reader thread of StandardIO of                  *)
(* src/plugin/context.py, on what the child wrote before it exited, read   *)
(* in any pieces.  buffer is the content of the BytesIO of Stream.         *)
(***************************************************************************)
\* The size of a read of stdout.
ContextReadLength == 2048

\* BytesIO.readline from the 1-based position: the bytes up to the first
\* "\n", included, or up to the end.
ReadLine(buf, pos) ==
    IF pos > Len(buf) THEN <<>>
    ELSE LET ends == {i \in pos..Len(buf) : buf[i] = LF}
         IN  IF ends = {} THEN SubSeq(buf, pos, Len(buf))
             ELSE SubSeq(buf, pos, CHOOSE i \in ends : \A j \in ends : i <= j)

\* The loop of Stream._get_content_length: the header lines up to the empty
\* line, and the position after it; EOFError when the lines run out first.
RECURSIVE ReadHeader(_, _, _)
ReadHeader(buf, pos, header) ==
    LET line == ReadLine(buf, pos)
    IN  IF line = <<>> THEN [exc |-> "EOFError", header |-> header, pos |-> pos]
        ELSE IF line = <<CR, LF>>
        THEN [exc |-> NoError, header |-> header, pos |-> pos + 2]
        ELSE ReadHeader(buf, pos + Len(line), header \o line)

\* str.splitlines: the lines end at "\r\n", "\n" or "\r".
RECURSIVE SplitLines(_)
SplitLines(s) ==
    IF s = <<>> THEN <<>>
    ELSE LET breaks == {i \in 1..Len(s) : s[i] \in {CR, LF}}
         IN  IF breaks = {} THEN <<s>>
             ELSE LET i == CHOOSE k \in breaks : \A m \in breaks : k <= m
                      j == IF s[i] = CR /\ i < Len(s) /\ s[i + 1] = LF
                           THEN i + 1 ELSE i
                  IN  <<SubSeq(s, 1, i - 1)>> \o SplitLines(SubSeq(s, j + 1, Len(s)))

\* re.compile(r"^Content\-Length: (\d+)").match(line)
LineMatches(line) ==
    /\ Len(line) > Len(ContentLengthField)
    /\ SubSeq(line, 1, Len(ContentLengthField)) = ContentLengthField
    /\ DigitsEnd(line, Len(ContentLengthField) + 1) > Len(ContentLengthField) + 1

\* The end of Stream._get_content_length: the first of the lines that the
\* pattern matches gives the length; InvalidMessage when none does.
MatchedLength(lines, pos) ==
    LET found == {i \in 1..Len(lines) : LineMatches(lines[i])}
    IN  IF found = {} THEN [exc |-> "InvalidMessage", n |-> 0, pos |-> pos]
        ELSE LET line == lines[CHOOSE k \in found : \A m \in found : k <= m]
                 b == Len(ContentLengthField) + 1
             IN  [exc |-> NoError,
                  n |-> CharsToInt(SubSeq(line, b, DigitsEnd(line, b) - 1)),
                  pos |-> pos]

\* What Stream._get_content_length does with the header lines h it read.
ContentLengthOf(h) ==
    IF h.exc # NoError THEN [exc |-> h.exc, n |-> 0, pos |-> h.pos]
    ELSE IF h.header = <<>> THEN [exc |-> "InvalidMessage", n |-> 0, pos |-> h.pos]
    ELSE MatchedLength(SplitLines(h.header), h.pos)

\* Stream._get_content_length of src/plugin/context.py: the exception it
\* raises, the length it returns and the position it leaves the BytesIO at.
context_get_content_length(buf) == ContentLengthOf(ReadHeader(buf, 1, <<>>))

\* What Stream.read does once _get_content_length has given cl.
ReadContent(buf, cl) ==
    LET content == SubSeq(buf, cl.pos, Min(cl.pos + cl.n - 1, Len(buf)))
    IN  IF cl.exc # NoError
        THEN [exc |-> cl.exc, content |-> <<>>, buffer |-> buf]
        ELSE IF Len(content) < cl.n
        THEN [exc |-> NoError, content |-> <<>>, buffer |-> buf]
        ELSE [exc |-> NoError, content |-> content,
              buffer |-> Drop(buf, cl.pos + cl.n)]

\* Stream.read of src/plugin/context.py: the exception raised, the content
\* returned (empty while the content is incomplete) and the buffer left.
Stream_read(buf) == ReadContent(buf, context_get_content_length(buf))

\* JSONMessage.from_string: json.loads may raise, and data.update raises
\* when the value is no dict.
JSONMessage_from_string(s) ==
    LET r == Loads(s)
    IN  IF ~r.ok THEN [exc |-> "JSONDecodeError", message |-> <<>>]
        ELSE IF r.v.t # "obj" THEN [exc |-> "AttributeError", message |-> <<>>]
        ELSE [exc |-> NoError, message |-> JSONMessage(r.v.o)]

\* The dispatch of _handle_stdout_message with exec_command: the exception
\* that leaves it, the request_map it leaves and the handler invocation it
\* makes.  exec_command catches what the handler raises; an unhashable id
\* or method raises TypeError.
context_dispatch(message, map, commands) ==
    LET id_ == ObjGet(message, K_id)
        method == ObjGet(message, K_method)
        quiet == [exc |-> NoError, request_map |-> map, calls |-> <<>>]
    IN  IF ObjHas(message, K_result) \/ ObjHas(message, K_error)
        THEN IF id_.t = "obj" THEN [quiet EXCEPT !.exc = "TypeError"]
             ELSE IF ~(id_.t = "int" /\ DictHas(map, id_.n)) THEN quiet
             ELSE LET found == DictGet(map, id_.n)
                  IN  [exc |-> NoError,
                       request_map |-> DictPop(map, id_.n),
                       calls |-> IF found \in DOMAIN commands
                                 THEN <<[func |-> commands[found],
                                         message |-> message]>>
                                 ELSE <<>>]
        ELSE IF ObjHas(message, K_method)
        THEN IF method.t = "obj" THEN [quiet EXCEPT !.exc = "TypeError"]
             ELSE IF ~(method.t = "str" /\ method.s \in DOMAIN commands) THEN quiet
             ELSE [quiet EXCEPT !.calls = <<[func |-> commands[method.s],
                                             message |-> message]>>]
        ELSE quiet

\* What the child writes: a response that carries a result.
Body_result(id_) == ServerDumps(JObj(RPCMessage_response(id_, JInt(0), JNull)))

\* stdout.read(2048) returns n bytes, which are written to the stream.
context_listen_stdout_read(n) ==
    /\ stdout_thread = "read"
    /\ nreads < MaxReads
    /\ n \in 1..Min(Len(stdout_pipe), ContextReadLength)
    /\ buffer' = buffer \o SubSeq(stdout_pipe, 1, n)
    /\ stdout_pipe' = Drop(stdout_pipe, n + 1)
    /\ stdout_thread' = "process"
    /\ nreads' = nreads + 1
    /\ UNCHANGED <<server_process, stderr_thread, codec, PluginVars, session, stdin_pipe,
                   reader_exc, request_map, command_map, request_id, issued,
                   last_call, events, threads, sent, contents, calls>>

\* stdout.read returns b"" at end-of-stream: the loop breaks.
context_listen_stdout_closed ==
    /\ stdout_thread = "read"
    /\ stdout_pipe = <<>>
    /\ server_process = "exited"
    /\ stdout_thread' = "closed"
    /\ UNCHANGED <<server_process, stderr_thread, codec, PluginVars, session, stdin_pipe,
                   stdout_pipe, buffer, reader_exc, request_map, command_map,
                   request_id, issued, last_call, events, threads, sent, nreads,
                   contents, calls>>

\* What a turn of the loop of _handle_stdout_message does with the result r
\* of Stream.read, the result m of JSONMessage.from_string and the result d
\* of the dispatch.  EOFError and an empty content break the loop and the
\* thread reads again; any other exception is caught nowhere and ends the
\* thread.
HandleRead(r, m, d) ==
    LET decoded == r.exc = NoError /\ r.content # <<>>
        dispatched == decoded /\ m.exc = NoError
    IN  /\ buffer' = r.buffer
        /\ contents' = IF decoded THEN Append(contents, r.content) ELSE contents
        /\ request_map' = IF dispatched THEN d.request_map ELSE request_map
        /\ calls' = IF dispatched THEN calls \o d.calls ELSE calls
        /\ reader_exc' = IF dispatched THEN d.exc
                         ELSE IF decoded THEN m.exc ELSE r.exc
        /\ stdout_thread' =
              IF dispatched THEN (IF d.exc = NoError THEN "process" ELSE "dead")
              ELSE IF decoded THEN "dead"
              ELSE IF r.exc \in {"EOFError", NoError} THEN "read"
              ELSE "dead"

\* The message in the content that Stream.read returned, and its dispatch.
HandleContent(r, m) ==
    HandleRead(r, m, context_dispatch(m.message, request_map, command_map))

\* One turn of the loop of _handle_stdout_message.
handle_stdout_message ==
    /\ stdout_thread = "process"
    /\ HandleContent(Stream_read(buffer),
                     JSONMessage_from_string(Stream_read(buffer).content))
    /\ UNCHANGED <<server_process, stderr_thread, codec, PluginVars, session, stdin_pipe,
                   stdout_pipe, command_map, request_id, issued, last_call, events,
                   threads, sent, nreads>>

\* The frames the child wrote, after nothing or after bytes that are no
\* frame.
ContextInputs ==
    {<<Body_result(1)>>,
     <<Body_notification(M_progress), Body_result(1)>>,
     <<Body_invalid, Body_result(1)>>}

InitContext ==
    /\ server_process = "exited"
    /\ stdin_pipe = <<>>
    /\ sent \in ContextInputs
    /\ stdout_pipe \in {written \o Frames(sent) : written \in {<<>>, Garbage}}
    /\ buffer = <<>>
    /\ stdout_thread = "read"
    /\ reader_exc = NoError
    /\ request_map = DictSet(DictSet(EmptyDict, 1, M_hover), 2, M_completion)
    /\ command_map = RegisterAll([m \in {} |-> "handle_hover"], Methods)
    /\ request_id = 2
    /\ issued = <<1, 2>>
    /\ last_call = [op |-> "request", exc |-> NoError]
    /\ events = 0
    /\ threads = [t \in Callers |-> Idle]
    /\ nreads = 0
    /\ contents = <<>>
    /\ calls = <<>>
    /\ stderr_thread = "read"
    /\ codec = NoCodec
    /\ session = SessionStarted
    /\ REQUEST_LOCK = FALSE
    /\ DOCUMENT_CHANGE_LOCK = FALSE
    /\ loading = {}
    /\ retired = NoReader

NextContext ==
    \/ \E n \in 1..Len(stdout_pipe) : context_listen_stdout_read(n)
    \/ context_listen_stdout_closed
    \/ handle_stdout_message

SpecContext == InitContext /\ [][NextContext]_vars

(***************************************************************************)
(* Properties of the dispatch and of cancel_request, under Spec.           *)
(***************************************************************************)
\* The step is a turn of _process_stream that decoded a message.
Decoded == stdout_thread = "process" /\ Len(contents') = Len(contents) + 1

\* The message that turn decoded.
DecodedMessage == from_str(contents'[Len(contents')])

\* The step is a call of cancel_request.
Cancelling ==
    events' = events + 1 /\ sent' = sent /\ last_call'.op = "cancel_request"

\* A request with the id and the method has been written to the child.
RequestSent(id_, method) ==
    \E i \in 1..Len(stdin_pipe) :
        stdin_pipe[i] = to_bytes(RPCMessage_request(id_, method, NoParams))

\* The step dispatches a response that carries the id.
DispatchingResponse(id_) ==
    /\ Decoded
    /\ DecodedMessage.exc = NoError
    /\ ~Truthy(ObjGet(DecodedMessage.message, K_method))
    /\ ObjGet(DecodedMessage.message, K_id) = JInt(id_)

\* The step invokes the handler of the method with the response and the id
\* is no longer in the table.
HandlerInvoked(id_, method) ==
    /\ calls' = Append(calls, [func |-> HandlerOf(method),
                               message |-> DecodedMessage.message])
    /\ ~DictHas(request_map', id_)

\* C1, as stated: for any id and method, once request() has sent a request
\* with that id and method, dispatching a response that carries the id
\* invokes the handler registered for the method with the response, and the
\* table no longer contains the id.
C1_AsStated ==
    [][\A id_ \in 1..MaxEvents : \A method \in RequestMethods :
          (/\ RequestSent(id_, method)
           /\ method \in DOMAIN command_map
           /\ DispatchingResponse(id_))
          => HandlerInvoked(id_, method)]_vars

\* C1, amended: for any id and method, once request() has sent a request with
\* that id and method, and while the id is still in the Request Table
\* (cancel_request has not emptied the table and no earlier response took the
\* id), dispatching a response that carries the id invokes the handler
\* registered for the method with the response, and the table no longer
\* contains the id.
C1_PendingResponseDispatched ==
    [][\A id_ \in 1..MaxEvents : \A method \in RequestMethods :
          (/\ RequestSent(id_, method)
           /\ DictHas(request_map, id_)
           /\ method \in DOMAIN command_map
           /\ DispatchingResponse(id_))
          => HandlerInvoked(id_, method)]_vars

\* A response of a sent request has been handed to its handler and its id is
\* gone from the table.
C1_Witness ==
    \E i \in 1..Len(calls) : \E method \in RequestMethods :
        LET id_ == ObjGet(calls[i].message, K_id)
        IN  /\ id_.t = "int"
            /\ ~Truthy(ObjGet(calls[i].message, K_method))
            /\ calls[i].func = HandlerOf(method)
            /\ RequestSent(id_.n, method)
            /\ ~DictHas(request_map, id_.n)

RECURSIVE IsOrderedSelection(_, _)
\* picked is made of elements of whole, each taken once, in the order of whole.
IsOrderedSelection(picked, whole) ==
    IF Len(picked) = 0 THEN TRUE
    ELSE IF Len(whole) = 0 THEN FALSE
    ELSE \/ (picked[1] = whole[1] /\ IsOrderedSelection(Tail(picked), Tail(whole)))
         \/ IsOrderedSelection(picked, Tail(whole))

\* The messages of the bodies, where a body that is not JSON has none.
RECURSIVE MessagesOf(_)
MessagesOf(bodies) ==
    IF Len(bodies) = 0 THEN <<>>
    ELSE (IF from_str(bodies[1]).exc = NoError
          THEN <<from_str(bodies[1]).message>> ELSE <<>>)
         \o MessagesOf(Tail(bodies))

HandledMessages == [i \in 1..Len(calls) |-> calls[i].message]

\* C5: the handlers are invoked in the order in which the frames of their
\* messages were completed in the child's stdout stream: the messages handed
\* to handlers, in order, are a selection of the messages the child framed,
\* in the order it framed them.
C5_DispatchInStreamOrder ==
    IsOrderedSelection(HandledMessages, MessagesOf(sent))

\* Two different messages have been dispatched one after the other.
C5_Witness ==
    /\ Len(calls) >= 2
    /\ calls[1].message # calls[2].message

\* The step is a turn of _process_stream in which the handler raised.
HandlerRaised ==
    /\ Decoded
    /\ Len(calls') = Len(calls) + 1
    /\ HandlerRaises(calls'[Len(calls')].func, calls'[Len(calls')].message)

\* The buffer holds a complete frame of a notification whose handler is
\* registered.
NotificationBuffered ==
    LET r == get_content(buffer)
        m == from_str(r.content)
    IN  /\ r.exc = NoError
        /\ m.exc = NoError
        /\ ObjGet(m.message, K_method).t = "str"
        /\ ObjGet(m.message, K_method).s \in DOMAIN command_map

\* C6: when a registered handler raises, the exception does not leave the
\* read loop: the thread stays in _process_stream with the bytes that follow
\* the frame still buffered, and a notification that is then complete in the
\* buffer, or arrives in a later read, is decoded and handed to its handler.
C6_HandlerExceptionContained ==
    [][/\ HandlerRaised =>
             /\ stdout_thread' = "process"
             /\ reader_exc' = "Exception"
             /\ \E n \in 1..Len(buffer) : buffer' = Drop(buffer, n + 1)
                    /\ SubSeq(buffer, 1, n) = Frame(contents'[Len(contents')])
       /\ (Decoded /\ NotificationBuffered
             /\ \E i \in 1..Len(calls) : HandlerRaises(calls[i].func, calls[i].message))
          => /\ Len(calls') = Len(calls) + 1
             /\ calls'[Len(calls')].message = from_str(get_content(buffer).content).message
             /\ stdout_thread' = "process"]_vars

\* A handler raised, and the message framed after it has been dispatched.
C6_Witness ==
    /\ Len(calls) >= 2
    /\ HandlerRaises(calls[1].func, calls[1].message)
    /\ ~HandlerRaises(calls[2].func, calls[2].message)

\* C9, as stated: cancel_request is for one request id: it removes no id but
\* that one from the Request Table, so every other pending id stays in the
\* table, and the only message it writes is one $/cancelRequest notification
\* that carries the id.
C9_CancelsOneId ==
    [][Cancelling =>
          \E id_ \in 1..MaxEvents :
             /\ DictKeys(request_map) \ {id_} \subseteq DictKeys(request_map')
             /\ stdin_pipe' \in
                   {stdin_pipe,
                    Append(stdin_pipe, to_bytes(RPCMessage_cancel_request(id_)))}]_vars

\* C10: a cancel_request that follows a cancel_request that returned, or that
\* is called when the response of the pending request has been dispatched
\* and nothing is pending, does not raise, leaves the Request Table with the
\* entries it had, and writes nothing.
C10_RepeatedCancelIsNoOp ==
    [][(/\ Cancelling
        /\ \/ last_call = [op |-> "cancel_request", exc |-> NoError]
           \/ /\ DictLen(request_map) = 0
              /\ \E i \in 1..Len(calls) : ~Truthy(ObjGet(calls[i].message, K_method)))
       => /\ last_call'.exc = NoError
          /\ DictItems(request_map') = DictItems(request_map)
          /\ stdin_pipe' = stdin_pipe]_vars

\* cancel_request has returned twice in a row, the first time with a request
\* pending.
C10_Witness ==
    /\ last_call = [op |-> "cancel_request", exc |-> NoError]
    /\ events >= 3
    /\ request_id = 1
    /\ Len(stdin_pipe) = 2
    /\ stdin_pipe[2] = to_bytes(RPCMessage_cancel_request(1))
    /\ DictLen(request_map) = 0

(***************************************************************************)
(* Properties of the Stream and of the read loop, under SpecStream.        *)
(***************************************************************************)
\* The reader has taken the whole stream and has left _process_stream.
StreamConsumed == stdout_pipe = <<>> /\ stdout_thread # "process"

ValidBodies(bodies) == \A i \in 1..Len(bodies) : from_str(bodies[i]).exc = NoError

\* C2, as stated: for every valid frame and every point at which it is split
\* in two, the header and the separator included, putting the two pieces one
\* after the other, with get_content called after each put, yields the one
\* message that putting the whole frame yields.
C2_SplitFrameDecodes ==
    (Len(sent) = 1 /\ ValidBodies(sent) /\ StreamConsumed) => contents = sent

\* C3: two valid frames put in a single put: the repeated get_content calls
\* of the read loop return the first frame's body and then the second's, no
\* more, and the buffer is empty afterwards.
C3_TwoFramesInOnePut ==
    (Len(sent) = 2 /\ ValidBodies(sent) /\ nreads = 1 /\ stdout_pipe = <<>>) =>
        /\ \E k \in 0..2 : contents = SubSeq(sent, 1, k)
        /\ stdout_thread # "process" => (contents = sent /\ buffer = <<>>)

\* Both frames came in one read and the loop has ended.
C3_Witness ==
    /\ Len(sent) = 2
    /\ ValidBodies(sent)
    /\ nreads = 1
    /\ stdout_thread = "read"
    /\ reader_exc = "EOFError"
    /\ contents = sent

\* The header in the buffer is complete and declares more content than the
\* buffer holds.
ContentMissing == get_content(buffer).exc = "ContentIncomplete"

\* C4: with a complete header that declares more content than is buffered,
\* get_content raises ContentIncomplete and leaves the buffer as it is, so
\* that calling it again does the same; once the missing bytes have been put,
\* get_content returns the whole body.
C4_IncompleteContentKept ==
    [][/\ (stdout_thread = "process" /\ ContentMissing) =>
             /\ reader_exc' = "ContentIncomplete"
             /\ buffer' = buffer
             /\ get_content(buffer') = get_content(buffer)
             /\ contents' = contents
       /\ (stdout_thread = "process" /\ reader_exc = "ContentIncomplete"
             /\ ~ContentMissing) =>
             /\ get_content(buffer).exc = NoError
             /\ contents' = Append(contents, sent[Len(contents) + 1])]_vars

\* ContentIncomplete was raised and the bytes put since complete the content.
C4_Witness ==
    /\ stdout_thread = "process"
    /\ reader_exc = "ContentIncomplete"
    /\ nreads = 2
    /\ get_content(buffer).exc = NoError
    /\ get_content(buffer).content = sent[1]

(***************************************************************************)
(* Properties of the calls of concurrent threads, under SpecConc.          *)
(***************************************************************************)
\* C7, as stated: under any interleaving of concurrent callers, the ids
\* get_request_id returns are 1, 2, 3, ... in the order of the returns: none
\* is returned twice and none is skipped.
C7_IdsUniqueAndSequential ==
    \A i \in 1..Len(issued) : issued[i] = i

\* A $/cancelRequest that carries the id has been written to the child.
CancelSent(id_) ==
    \E i \in 1..Len(stdin_pipe) :
        stdin_pipe[i] = to_bytes(RPCMessage_cancel_request(id_))

\* The response that carries the id has been taken from the stream.
ResponseTaken(id_) ==
    \E i \in 1..Len(contents) : contents[i] = Body_response(id_)

\* C8, as stated: with the reader thread removing ids and caller threads
\* inserting (request) and removing (cancel_request) at the same time, no
\* operation on the Request Table fails, and no insertion is lost: the id of
\* a request that was sent is in the table until its response is dispatched
\* or a cancel_request has cancelled it.
C8_RequestTableThreadSafe ==
    /\ last_call.exc # "RuntimeError"
    /\ \A id_ \in 1..MaxEvents :
          RequestSent(id_, M_hover) =>
             \/ DictHas(request_map, id_)
             \/ CancelSent(id_)
             \/ ResponseTaken(id_)

(***************************************************************************)
(* Properties of the errors of dispatch and of the write, under Spec.      *)
(***************************************************************************)
\* The step dispatches a response whose id is not in the Request Table.
DispatchingUnknownResponse ==
    /\ Decoded
    /\ DecodedMessage.exc = NoError
    /\ ~Truthy(ObjGet(DecodedMessage.message, K_method))
    /\ LET id_ == ObjGet(DecodedMessage.message, K_id)
       IN  ~(id_.t = "int" /\ DictHas(request_map, id_.n))

\* C11: a response whose id is not in the Request Table, such as one that
\* arrives after cancel_request dropped the id, invokes no handler, leaves
\* the table, the registered commands and what was written to the child as
\* they were, and does not end the read loop: the thread stays in
\* _process_stream with the bytes that follow the frame.
C11_UnknownResponseDropped ==
    [][DispatchingUnknownResponse =>
          /\ calls' = calls
          /\ request_map' = request_map
          /\ command_map' = command_map
          /\ stdin_pipe' = stdin_pipe
          /\ request_id' = request_id
          /\ stdout_thread' = "process"
          /\ buffer' = get_content(buffer).buffer]_vars

\* The response of a request arrived after cancel_request had dropped its id,
\* and the read loop went on.
C11_Witness ==
    /\ \E method \in RequestMethods : RequestSent(1, method)
    /\ CancelSent(1)
    /\ ResponseTaken(1)
    /\ calls = <<>>
    /\ reader_exc = "ValueError"
    /\ stdout_thread = "process"

\* C12, as stated: when the write to the child's stdin fails in request()
\* because the child has died, the caller receives ServerOffline and no
\* other error.
C12_BrokenPipeIsServerOffline ==
    last_call.op = "request" => last_call.exc \in {NoError, "ServerOffline"}

(***************************************************************************)
(* Properties of the encoders and the decoders, under SpecCodec.           *)
(***************************************************************************)
\* C13, as stated: a frame whose header declares fewer bytes than its body
\* region holds (Content-Length: 5 before a body of 8 bytes) makes the
\* decoder of the stream signal ContentOverflow and reset the buffer.
C13_OverflowSignalled ==
    (/\ codec.op = "get_content"
     /\ codec.extra = "none"
     /\ codec.declared = "short"
     /\ Len(InboundBody(codec)) > 3)
    => (codec.exc = "ContentOverflow" /\ codec.buffer = <<>>)

Keys(o) == {o[i][1] : i \in 1..Len(o)}

\* C15: for every message m of the bounded set, from_bytes(m.to_bytes())
\* returns, without raising, a message with the fields of m and the jsonrpc
\* field, each field of m other than jsonrpc with the value it has in m, and
\* jsonrpc with "2.0".
C15_RoundTrip ==
    codec.op = "from_bytes(to_bytes)" =>
        /\ codec.exc = NoError
        /\ Keys(codec.out) = Keys(codec.message) \cup {K_jsonrpc}
        /\ Len(codec.out) = Cardinality(Keys(codec.out))
        /\ \A key \in Keys(codec.message) \ {K_jsonrpc} :
              ObjGet(codec.out, key) = ObjGet(codec.message, key)
        /\ ObjGet(codec.out, K_jsonrpc) = JStr(JSONRPC_VERSION)

\* A response that held another jsonrpc value has been encoded and decoded.
C15_Witness ==
    /\ codec.op = "from_bytes(to_bytes)"
    /\ ObjGet(codec.message, K_jsonrpc) = JStr(OtherVersion)
    /\ ObjGet(codec.message, K_id) = JInt(2)
    /\ ObjGet(codec.out, K_id) = JInt(2)
    /\ ObjHas(codec.out, K_result)

\* C16, as stated: every encoded outbound frame, of RPCMessage.to_bytes and
\* of JSONMessage.to_bytes, is 'Content-Length: N', the separator and the
\* body, N being the length of the body, with nothing after the body, and the
\* body carries jsonrpc = "2.0" whatever the message held.
C16_OutboundFrameExact ==
    codec.op \in {"to_bytes", "JSONMessage.to_bytes"} =>
        LET parts == Split(codec.frame)
        IN  /\ Len(parts) = 2
            /\ parts[1] = ContentLengthField \o IntToChars(Len(parts[2]))
            /\ Loads(parts[2]).ok
            /\ Loads(parts[2]).v.t = "obj"
            /\ ObjGet(Loads(parts[2]).v.o, K_jsonrpc) = JStr(JSONRPC_VERSION)

\* C17, as stated: a frame whose header block has another header line before
\* or after the Content-Length line is decoded to the body that the frame
\* with the Content-Length line alone is decoded to.
C17_OtherHeadersTolerated ==
    (codec.op = "get_content" /\ codec.declared = "exact"
       /\ codec.extra \in {"none", "before", "after"}) =>
        (codec.exc = NoError /\ codec.content = InboundBody(codec))

(***************************************************************************)
(* Properties of the validation and of the dispatch, under SpecStream.     *)
(***************************************************************************)
\* The message is a notification (method, no id), a request (method and id)
\* or a response (id, no method, one of result and error).
IsMessage(message) ==
    IF ObjHas(message, K_method)
    THEN ~ObjHas(message, K_result) /\ ~ObjHas(message, K_error)
    ELSE /\ ObjHas(message, K_id)
         /\ ObjHas(message, K_result) # ObjHas(message, K_error)

\* C14, as stated: the body of an inbound frame whose jsonrpc field is
\* missing or is not "2.0", or whose id/method/result/error combination is
\* not that of a notification, a request or a response, fails to decode with
\* InvalidMessage and no handler is invoked for it: every message handed to
\* a handler has jsonrpc = "2.0" and a valid combination.
C14_InboundValidated ==
    \A i \in 1..Len(calls) :
        /\ ObjGet(calls[i].message, K_jsonrpc) = JStr(JSONRPC_VERSION)
        /\ IsMessage(calls[i].message)

\* The step dispatches a message whose method has no registered handler.
DispatchingUnregistered ==
    /\ Decoded
    /\ DecodedMessage.exc = NoError
    /\ LET method == ObjGet(DecodedMessage.message, K_method)
       IN  Truthy(method) /\ ~(method.t = "str" /\ method.s \in DOMAIN command_map)

\* C18: a decoded message whose method has no registered handler invokes no
\* handler and raises nothing into the read loop: the thread stays in
\* _process_stream with the bytes that follow the frame, and the response
\* framed after it reaches its handler.
C18_UnregisteredMethodDropped ==
    /\ [][DispatchingUnregistered =>
             /\ calls' = calls
             /\ request_map' = request_map
             /\ stdout_thread' = "process"
             /\ buffer' = get_content(buffer).buffer]_vars
    /\ [](  (/\ sent = <<Body_notification(M_unregistered), Body_response(1)>>
             /\ nreads = 1
             /\ stdout_pipe = <<>>
             /\ stdout_thread # "process")
          => (/\ contents = sent
              /\ Len(calls) = 1
              /\ calls[1].func = HandlerOf(M_hover)
              /\ calls[1].message = from_str(Body_response(1)).message))

\* The message of the unregistered method was dropped and the response after
\* it was handled.
C18_Witness ==
    /\ sent = <<Body_notification(M_unregistered), Body_response(1)>>
    /\ contents = sent
    /\ Len(calls) = 1
    /\ ~DictHas(request_map, 1)
    /\ stdout_thread = "read"

(***************************************************************************)
(* Properties of terminate, under SpecLife.                                *)
(***************************************************************************)
\* C19, as stated: terminate() returns only after the child has been killed
\* and both reader threads, of stdout and of stderr, have left their loops.
C19_TerminateJoins ==
    last_call.op = "terminate" =>
        /\ server_process = "exited"
        /\ stdout_thread = "closed"
        /\ stderr_thread = "closed"

\* The step is a call of terminate.
Terminating ==
    events' = events + 1 /\ sent' = sent /\ last_call'.op = "terminate"

ClientCalled(op) == events' = events + 1 /\ last_call'.op = op

\* A step in which a call of an operation that sends ends.
ClientSends == \E op \in SendingOperations : ClientCalled(op)

\* The session has been reset and no server was started since.
SessionTerminated == session.transport = 0 /\ session.constructed > 0

\* C21: after shutdown_server/reset_session, every client operation that
\* would send a request or a notification raises ServerOffline and writes
\* nothing.
C21_OfflineAfterShutdown ==
    [][(SessionTerminated /\ ClientSends) =>
          (last_call'.exc = "ServerOffline" /\ stdin_pipe' = stdin_pipe)]_vars

\* The child of the client's transport has exited on its own and both
\* reader threads have found the end of their streams.
ChildGone ==
    /\ session.transport # 0
    /\ server_process = "exited"
    /\ stdout_thread = "closed"
    /\ stderr_thread = "closed"

\* C22: once the child has exited on its own and its stdout and stderr have
\* reached end-of-stream, server_running becomes false, and an operation of
\* the client that is called after that raises ServerOffline and writes
\* nothing.
C22_ExitObserved ==
    /\ ChildGone ~> ~session.server_running
    /\ [][(ChildGone /\ ClientCalled("textDocument_hover")) =>
             (last_call'.exc = "ServerOffline" /\ stdin_pipe' = stdin_pipe)]_vars

\* C23: after reset_session the client holds no transport and
\* server_running, is_initialized, request_id, document_version_map,
\* active_document and source have their initial values, and they keep
\* them while the client holds no transport; a run_server that succeeds
\* uses a transport that was never used before, with an empty request_map
\* and nothing written on its stdin.
C23_NewTransportPerSession ==
    /\ [](session.transport = 0 =>
            /\ [session EXCEPT !.constructed = 0] = LSPClient_init
            /\ request_id = 0)
    /\ [][/\ (ClientCalled("shutdown_server") /\ session.server_running) =>
                /\ session'.transport = 0
                /\ ~session'.server_running
                /\ ~session'.is_initialized
                /\ request_id' = 0
                /\ session'.document_version_map = NoVersions
                /\ session'.active_document = ""
                /\ session'.source = ""
          /\ (ClientCalled("run_server") /\ last_call'.exc = NoError) =>
                /\ session'.transport > session.constructed
                /\ request_map' = EmptyDict
                /\ stdin_pipe' = <<>>
                /\ server_process' = "running"]_vars

\* A second server has been started after the first session was shut down:
\* the client holds the second transport, whose request_map is empty.
C23_Witness ==
    /\ last_call = [op |-> "run_server", exc |-> NoError]
    /\ session.transport = 2
    /\ session.server_running
    /\ request_map = EmptyDict
    /\ session.active_document = ""

(***************************************************************************)
(* Properties of the framing, under SpecStream and SpecCodec.              *)
(***************************************************************************)
\* The buffer holds the start of a header whose separator has not arrived.
HeaderArriving == buffer # <<>> /\ SeparatorPlaces(buffer) = {}

\* C24: when the buffered bytes are non-empty and do not yet contain the
\* separator, get_content signals that the data is incomplete, not a
\* framing error, and the buffered bytes are kept.
C24_ArrivingHeaderKept ==
    [][(stdout_thread = "process" /\ HeaderArriving) =>
          (reader_exc' # "InvalidMessage" /\ buffer' = buffer)]_vars

\* C25: when the stdout loop is at its read, no complete frame is left in
\* the buffer: every complete frame received has been extracted, also after
\* a frame whose body is not valid JSON.
C25_NoCompleteFrameLeft ==
    stdout_thread \in {"read", "closed"} => get_content(buffer).exc # NoError

\* C26: a put appends the bytes read to the buffer; on every successful
\* get_content the buffer was a header without separator, the separator,
\* the content returned, whose length is the Content-Length of the header,
\* and the buffer that is left, in this order.
C26_BytesConserved ==
    [][/\ (stdout_thread = "read" /\ stdout_thread' = "process") =>
             \E n \in 1..Len(stdout_pipe) :
                /\ buffer' = buffer \o SubSeq(stdout_pipe, 1, n)
                /\ stdout_pipe = SubSeq(stdout_pipe, 1, n) \o stdout_pipe'
       /\ Decoded =>
             \E h \in 0..Len(buffer) :
                LET headers == SubSeq(buffer, 1, h)
                    content == contents'[Len(contents')]
                IN  /\ SeparatorPlaces(headers \o SubSeq(separator, 1, 3)) = {}
                    /\ buffer = headers \o separator \o content \o buffer'
                    /\ ContentLengthMatches(headers) # {}
                    /\ Len(content) = get_content_length(headers).n]_vars

\* Two frames came in two reads; both bodies have been returned, in the
\* order of the frames, and nothing is left.
C26_Witness ==
    /\ Len(sent) = 2
    /\ ValidBodies(sent)
    /\ nreads = 2
    /\ contents = sent
    /\ buffer = <<>>
    /\ stdout_pipe = <<>>

\* C27: when the header region before the first separator has no
\* Content-Length line, get_content raises InvalidMessage and discards the
\* whole buffer, the bytes after the separator included.
C27_MissingLengthDiscardsAll ==
    (codec.op = "get_content" /\ codec.extra = "only") =>
        (codec.exc = "InvalidMessage" /\ codec.buffer = <<>>)

\* get_content was given a frame whose header has another line alone,
\* followed by a body.
C27_Witness ==
    /\ codec.op = "get_content"
    /\ codec.extra = "only"
    /\ codec.exc = "InvalidMessage"
    /\ SeparatorPlaces(codec.frame) # {}
    /\ Len(InboundBody(codec)) > 2
    /\ codec.buffer = <<>>

(***************************************************************************)
(* Properties of the recovery of the read loop, under SpecResync.          *)
(***************************************************************************)
\* The turn of the loop ends with InvalidMessage.
FramingError == stdout_thread = "process" /\ reader_exc' = "InvalidMessage"

\* The loop caught InvalidMessage, and the read that followed brought one
\* frame of the child, whole.
FrameAfterFramingError(body) ==
    /\ stdout_thread = "process"
    /\ reader_exc = "InvalidMessage"
    /\ buffer = Frame(body)

\* C28: after InvalidMessage the stdout loop goes on with an empty buffer,
\* and a valid frame that arrives in a later read is decoded and
\* dispatched.
C28_ResyncAfterFramingError ==
    [][/\ FramingError => (stdout_thread' = "read" /\ buffer' = <<>>)
       /\ \A i \in 1..Len(sent) :
             FrameAfterFramingError(sent[i]) =>
                /\ contents' = Append(contents, sent[i])
                /\ Len(calls') = Len(calls) + 1
                /\ calls'[Len(calls')].message = from_str(sent[i]).message]_vars

\* The bytes outside any frame came in one read and the frame in the next:
\* the frame has been decoded and its handler invoked.
C28_Witness ==
    /\ nreads = 2
    /\ stdout_pipe = <<>>
    /\ contents = sent
    /\ Len(calls) = 1
    /\ reader_exc = NoError

(***************************************************************************)
(* Properties of the read loop of src/plugin/context.py, under             *)
(* SpecContext.                                                            *)
(***************************************************************************)
\* C29: in the transport of context.py, when the read of a frame raises
\* InvalidMessage or the body of a frame is not valid JSON, the reader
\* thread keeps running.
C29_ContextReaderRecovers ==
    [][(stdout_thread = "process"
          /\ reader_exc' \in {"InvalidMessage", "JSONDecodeError"}) =>
          stdout_thread' \in {"read", "process"}]_vars

(***************************************************************************)
(* Properties of the order of the steps of request(), under SpecConc.      *)
(***************************************************************************)
\* The request of thread t.
RequestOf(t) == RPCMessage_request(threads[t].id, threads[t].method, NoParams)

\* The thread has its id and has not yet recorded it.
BeforeRecord(t) == At(t, "request_store")

\* The step in which the thread writes its request.
WritesRequest(t) ==
    /\ At(t, "request_send")
    /\ ~At(t, "request_send")'
    /\ stdin_pipe' # stdin_pipe

\* C30: request() records id -> method in request_map before any byte of
\* the request is written: the step that records writes nothing and leaves
\* the id with its method in the table, the write comes after it and
\* changes nothing in the table, and while a thread has not yet recorded an
\* id that it alone was given, no request with that id is on stdin.
C30_RecordedBeforeWritten ==
    /\ [](\A t \in Callers :
            (BeforeRecord(t)
               /\ Cardinality({k \in 1..Len(issued) : issued[k] = threads[t].id}) = 1)
            => \A i \in 1..Len(stdin_pipe) : stdin_pipe[i] # to_bytes(RequestOf(t)))
    /\ [][\A t \in Callers :
            /\ (BeforeRecord(t) /\ ~BeforeRecord(t)') =>
                  /\ stdin_pipe' = stdin_pipe
                  /\ DictHas(request_map', threads[t].id)
                  /\ DictGet(request_map', threads[t].id) = threads[t].method
                  /\ At(t, "request_send")'
            /\ WritesRequest(t) =>
                  /\ stdin_pipe' = Append(stdin_pipe, to_bytes(RequestOf(t)))
                  /\ request_map' = request_map]_vars

\* A thread has recorded the id 1 with its method and has then written the
\* request.
C30_Witness ==
    /\ last_call = [op |-> "request", exc |-> NoError]
    /\ RequestSent(1, M_hover)
    /\ DictHas(request_map, 1)
    /\ DictGet(request_map, 1) = M_hover

(***************************************************************************)
(* SpecTable: the transport with one caller, and a child that writes       *)
(* responses, notifications and requests of its own whose ids are those    *)
(* of the client's requests.                                               *)
(***************************************************************************)
\* A request of the child: a message with an id and a method.
Body_server_request(id_, method) ==
    ServerDumps(JObj(<< <<K_id, JInt(id_)>>, <<K_method, JStr(method)>> >>))

TableBodies ==
    {Body_response(1), Body_server_request(1, M_progress),
     Body_notification(M_progress)}

NextTable ==
    \/ register_commands
    \/ \E method \in RequestMethods : request(method)
    \/ notify(M_progress)
    \/ respond(1)
    \/ cancel_request
    \/ \E body \in TableBodies : ServerWrite(body)
    \/ listen_stdout_read(Len(stdout_pipe)) /\ UNCHANGED nreads
    \/ process_stream

SpecTable == Init /\ [][NextTable]_vars

(***************************************************************************)
(* The changes of the Request Table, under SpecTable.                      *)
(***************************************************************************)
\* The step is a call of op of the transport.
TableCall(op) == ClientCalled(op) /\ sent' = sent

\* The step dispatches a message of the child that carries a method.
DispatchingServerMessage ==
    /\ Decoded
    /\ DecodedMessage.exc = NoError
    /\ Truthy(ObjGet(DecodedMessage.message, K_method))

\* C31: the Request Table changes only in three ways: request() adds its id,
\* the dispatch of a response removes the id of the response, and
\* cancel_request removes ids; notify, respond, register_command and the
\* dispatch of a message the child initiated (one that carries the id of a
\* pending request included) leave the table as it was.
C31_TableChangesThreeWays ==
    [][/\ request_map' # request_map =>
             \/ /\ TableCall("request")
                /\ \E method \in RequestMethods :
                      request_map' = DictSet(request_map, request_id', method)
             \/ \E id_ \in 1..MaxEvents :
                   /\ DispatchingResponse(id_)
                   /\ request_map' = DictPop(request_map, id_)
             \/ /\ TableCall("cancel_request")
                /\ request_map' = EmptyDict
       /\ (\/ TableCall("notify")
           \/ TableCall("respond")
           \/ command_map' # command_map
           \/ DispatchingServerMessage) => request_map' = request_map]_vars

\* A request of the child that carries the id of a pending request has been
\* handed to its handler, and the id is still in the table.
C31_Witness ==
    /\ DictHas(request_map, 1)
    /\ \E i \in 1..Len(calls) :
          /\ ObjGet(calls[i].message, K_id) = JInt(1)
          /\ ObjGet(calls[i].message, K_method) = JStr(M_progress)

(***************************************************************************)
(* SpecWrite: the threads that call send_message, one write of the pipe    *)
(* at a time.  stdin is opened with bufsize=0, so stdin.write is one       *)
(* write on the pipe; the pipe takes a write of at most PIPE_BUF bytes in  *)
(* one piece and a longer one in pieces, between which the write of        *)
(* another thread can land.  Nothing in send_message or in its callers     *)
(* holds a lock.  stdin_pipe is the sequence of the pieces written.        *)
(***************************************************************************)
\* The longest write a pipe takes atomically.
PIPE_BUF == 4096

K_text == <<"t", "e", "x", "t">>

\* The text of a document longer than what the pipe takes in one piece.
LongSource == [i \in 1..PIPE_BUF |-> "x"]

\* The messages the threads send: the didOpen of a short and of a long
\* document, and a notification without parameters.
WriteMessages ==
    {RPCMessage_notification(M_didOpen, JObj(<< <<K_text, JStr(source)>> >>)) :
        source \in {<<"s">>, LongSource}}
    \cup {RPCMessage_notification(M_initialized, NoParams)}

\* send_message: bmessage = message.to_bytes(), before the write.
send_message_begin(t, message) ==
    /\ At(t, "idle")
    /\ events < MaxEvents
    /\ events' = events + 1
    /\ Goto(t, [pc |-> "write", method |-> ObjGet(message, K_method).s, tmp |-> 0,
                id |-> 0, it |-> Idle.it, bmessage |-> to_bytes(message)])
    /\ UNCHANGED <<server_process, stderr_thread, codec, PluginVars, session, stdin_pipe, request_map, command_map, request_id,
                   issued, last_call, ReaderVars>>

\* self.server_process.stdin.write(bmessage): the pipe takes the next piece;
\* send_message returns when the last piece is taken.
stdin_write(t) ==
    /\ At(t, "write")
    /\ LET rest == Drop(threads[t].bmessage, threads[t].tmp + 1)
           piece == SubSeq(rest, 1, Min(Len(rest), PIPE_BUF))
       IN  /\ stdin_pipe' = Append(stdin_pipe, piece)
           /\ IF Len(piece) = Len(rest)
              THEN Returned(t, "send_message", NoError)
              ELSE /\ Goto(t, [threads[t] EXCEPT !.tmp = threads[t].tmp + Len(piece)])
                   /\ UNCHANGED last_call
    /\ UNCHANGED <<server_process, stderr_thread, codec, PluginVars, session, request_map, command_map, request_id, issued,
                   events, ReaderVars>>

NextWrite ==
    \/ \E t \in Callers : \E message \in WriteMessages : send_message_begin(t, message)
    \/ \E t \in Callers : stdin_write(t)

SpecWrite == InitConc /\ [][NextWrite]_vars

\* The bytes of the pieces, in the order the child reads them.
RECURSIVE Join(_)
Join(pieces) ==
    IF Len(pieces) = 0 THEN <<>> ELSE pieces[1] \o Join(Tail(pieces))

\* The stream is a sequence of whole frames, followed by the beginning of
\* one when a write is under way.
RECURSIVE FramesContiguous(_)
FramesContiguous(stream) ==
    \/ Len(stream) = 0
    \/ \E message \in WriteMessages :
          LET f == to_bytes(message)
          IN  IF Len(stream) < Len(f)
              THEN stream = SubSeq(f, 1, Len(stream))
              ELSE /\ SubSeq(stream, 1, Len(f)) = f
                   /\ FramesContiguous(Drop(stream, Len(f) + 1))

\* C32: the frames written to the child's stdin by different threads never
\* interleave: the bytes of each frame are contiguous in the stream the
\* child reads.
C32_FramesNeverInterleave == FramesContiguous(Join(stdin_pipe))

(***************************************************************************)
(* SpecDrain: the reader threads until the end of the streams, with the    *)
(* handlers that wait: handle_textDocument_formatting waits until the      *)
(* active view is loaded, handle_workspace_applyEdit waits for             *)
(* DOCUMENT_CHANGE_LOCK and then until the view it opened is loaded.  The  *)
(* UI thread applies edits too (the code action chosen in the quick        *)
(* panel), holding the lock meanwhile.                                     *)
(***************************************************************************)
K_edit == <<"e", "d", "i", "t">>

\* The response to the formatting request, with edits.
Body_edits(id_) == ServerDumps(JObj(RPCMessage_response(id_, JInt(1), JNull)))

\* The child's request workspace/applyEdit.
Body_applyEdit ==
    ServerDumps(JObj(RPCMessage_request(1, M_applyEdit,
                                        JObj(<< <<K_edit, JInt(1)>> >>))))

DrainBodies == {Body_edits(1), Body_applyEdit, Body_notification(M_progress)}

\* A release that leaves the lock as it is.
DocumentChangeLock_release_keeps(locked) == locked

\* DocumentChangeLock.release: the lock is unlocked, whoever holds it; the
\* RuntimeError of releasing an unlocked lock is swallowed.
DocumentChangeLock_release(locked) == FALSE

\* Whether the handler goes on to apply changes: the formatting handler
\* returns at once on an error or an empty result, the applyEdit handler
\* when params["edit"] is missing.
HandlerApplies(func, message) ==
    \/ /\ func = "handle_textDocument_formatting"
       /\ ~Truthy(ObjGet(message, K_error))
       /\ Truthy(ObjGet(message, K_result))
    \/ /\ func = "handle_workspace_applyEdit"
       /\ ObjGet(message, K_params).t = "obj"
       /\ ObjHas(ObjGet(message, K_params).o, K_edit)

\* One turn of the loop of _process_stream up to the call of the handler:
\* what it leaves in the buffer, the table and the logs, and whether the
\* loop goes on.  r is what get_content returns, m what from_str makes of
\* the content, h what handle_received_message does.
ReaderTurn(buf, map, commands) ==
    Only({
      IF r.exc # NoError
      THEN [buffer |-> r.buffer, exc |-> r.exc, contents |-> <<>>,
            request_map |-> map, calls |-> <<>>, again |-> FALSE]
      ELSE Only({
        IF m.exc # NoError
        THEN [buffer |-> r.buffer, exc |-> m.exc, contents |-> <<r.content>>,
              request_map |-> map, calls |-> <<>>, again |-> FALSE]
        ELSE Only({
          [buffer |-> r.buffer, exc |-> h.exc, contents |-> <<r.content>>,
           request_map |-> h.request_map, calls |-> h.calls,
           again |-> h.exc = NoError \/ process_stream_catches(h.exc)] :
          h \in {handle_received_message(m.message, map, commands)}}) :
        m \in {from_str(r.content)}}) :
      r \in {get_content(buf)}})

\* Where the reader thread is after the turn t: in
\* ActiveDocument.apply_document_change, in apply_edit_changes, in the loop
\* of _process_stream or back at the read.
AfterTurn(t) ==
    IF Len(t.calls) > 0 /\ HandlerApplies(t.calls[1].func, t.calls[1].message)
    THEN IF t.calls[1].func = "handle_textDocument_formatting"
         THEN "apply_document_change" ELSE "apply_edit_changes"
    ELSE IF t.again THEN "process" ELSE "read"

\* The turn t of _process_stream, with the handlers that wait: the active
\* view may be loading when the formatting handler asks.
DrainTurn(t, thread) ==
    /\ buffer' = t.buffer
    /\ reader_exc' = t.exc
    /\ contents' = contents \o t.contents
    /\ request_map' = t.request_map
    /\ calls' = calls \o t.calls
    /\ stdout_thread' = thread
    /\ IF Len(t.calls) > 0 /\ t.calls[1].func = "handle_textDocument_formatting"
          /\ thread = "apply_document_change"
       THEN \E is_loading \in BOOLEAN :
               loading' = IF is_loading THEN loading \cup {"reader"} ELSE loading
       ELSE UNCHANGED loading

drain_process_stream ==
    /\ stdout_thread = "process"
    /\ \E t \in {ReaderTurn(buffer, request_map, command_map)} :
          \E thread \in {AfterTurn(t)} : DrainTurn(t, thread)
    /\ UNCHANGED <<server_process, stderr_thread, codec, session, stdin_pipe, stdout_pipe, command_map, request_id,
                   issued, last_call, events, threads, sent, nreads,
                   REQUEST_LOCK, DOCUMENT_CHANGE_LOCK, retired>>

\* apply_edit_changes: the poll of DOCUMENT_CHANGE_LOCK ends when it is
\* unlocked; acquire, then Document(file_name, force_open=True) opens the
\* file and the thread waits for the view in Document.apply_document_change.
reader_acquire ==
    /\ stdout_thread = "apply_edit_changes"
    /\ ~DOCUMENT_CHANGE_LOCK
    /\ DOCUMENT_CHANGE_LOCK' = TRUE
    /\ loading' = loading \cup {"reader"}
    /\ stdout_thread' = "apply_document_change"
    /\ UNCHANGED <<server_process, stderr_thread, codec, session, stdin_pipe, stdout_pipe, buffer, reader_exc,
                   request_map, command_map, request_id, issued, last_call, events,
                   threads, sent, nreads, contents, calls, REQUEST_LOCK, retired>>

\* apply_document_change once the view is loaded: the command applies the
\* changes and releases DOCUMENT_CHANGE_LOCK, as the finally clause of
\* apply_edit_changes does; the handler returns to _process_stream.
reader_apply ==
    /\ stdout_thread = "apply_document_change"
    /\ "reader" \notin loading
    /\ DOCUMENT_CHANGE_LOCK' = DocumentChangeLock_release(DOCUMENT_CHANGE_LOCK)
    /\ stdout_thread' = "process"
    /\ UNCHANGED <<server_process, stderr_thread, codec, session, stdin_pipe, stdout_pipe, buffer, reader_exc,
                   request_map, command_map, request_id, issued, last_call, events,
                   threads, sent, nreads, contents, calls, REQUEST_LOCK, loading, retired>>

\* The editor finishes loading a view.
view_loaded(t) ==
    /\ t \in loading
    /\ loading' = loading \ {t}
    /\ UNCHANGED <<server_process, stderr_thread, codec, session, stdin_pipe, request_map, command_map,
                   request_id, issued, last_call, events, threads, ReaderVars,
                   REQUEST_LOCK, DOCUMENT_CHANGE_LOCK, retired>>

\* The UI thread in apply_edit_changes (on_done of show_code_action): it
\* acquires the lock when it is unlocked and opens the file.
ui_acquire ==
    /\ At("ui", "idle")
    /\ events < MaxEvents
    /\ ~DOCUMENT_CHANGE_LOCK
    /\ DOCUMENT_CHANGE_LOCK' = TRUE
    /\ loading' = loading \cup {"ui"}
    /\ events' = events + 1
    /\ Goto("ui", [Idle EXCEPT !.pc = "apply_document_change"])
    /\ UNCHANGED <<server_process, stderr_thread, codec, session, stdin_pipe, request_map, command_map,
                   request_id, issued, last_call, ReaderVars, REQUEST_LOCK, retired>>

\* ... and applies the changes once its view is loaded.
ui_apply ==
    /\ At("ui", "apply_document_change")
    /\ "ui" \notin loading
    /\ DOCUMENT_CHANGE_LOCK' = DocumentChangeLock_release(DOCUMENT_CHANGE_LOCK)
    /\ Returned("ui", "apply_edit_changes", NoError)
    /\ UNCHANGED <<server_process, stderr_thread, codec, session, stdin_pipe, request_map, command_map,
                   request_id, issued, events, ReaderVars, REQUEST_LOCK, loading, retired>>

InitDrain ==
    /\ server_process = "running"
    /\ stdin_pipe = <<>>
    /\ stdout_pipe = <<>>
    /\ buffer = <<>>
    /\ stdout_thread = "read"
    /\ reader_exc = NoError
    /\ request_map = DictSet(EmptyDict, 1, M_formatting)
    /\ command_map = RegisterAll([m \in {} |-> "handle_hover"],
                                 Methods \cup {M_formatting, M_applyEdit})
    /\ request_id = 1
    /\ issued = <<1>>
    /\ last_call = [op |-> "request", exc |-> NoError]
    /\ events = 0
    /\ threads = [t \in Callers |-> Idle]
    /\ sent = <<>>
    /\ nreads = 0
    /\ contents = <<>>
    /\ calls = <<>>
    /\ stderr_thread = "read"
    /\ codec = NoCodec
    /\ session = SessionStarted
    /\ REQUEST_LOCK = FALSE
    /\ DOCUMENT_CHANGE_LOCK = FALSE
    /\ loading = {}
    /\ retired = NoReader

ReaderNext ==
    \/ listen_stdout_read(Len(stdout_pipe)) /\ UNCHANGED nreads
    \/ listen_stdout_closed
    \/ drain_process_stream
    \/ reader_acquire
    \/ reader_apply

NextDrain ==
    \/ \E body \in DrainBodies : ServerWrite(body)
    \/ terminate
    \/ SessionServerExit
    \/ ReaderNext
    \/ listen_stderr_closed
    \/ \E t \in {"reader", "ui"} : view_loaded(t)
    \/ ui_acquire
    \/ ui_apply

SpecDrain == InitDrain /\ [][NextDrain]_vars

\* The threads run and the editor loads its views: a step of the reader
\* threads or of the UI thread that can be taken is taken, and a view that
\* is loading gets loaded.
SpecDrainLive ==
    /\ SpecDrain
    /\ WF_vars(ReaderNext)
    /\ WF_vars(listen_stderr_closed)
    /\ WF_vars(ui_apply)
    /\ \A t \in {"reader", "ui"} : WF_vars(view_loaded(t))

C34_CancelsEveryPendingId ==
    [][/\ (Cancelling /\ last_call'.exc = NoError) =>
             /\ stdin_pipe' = stdin_pipe \o CancelFrames(DictItems(request_map))
             /\ \A id_ \in DictKeys(request_map) :
                   Cardinality({i \in (Len(stdin_pipe) + 1)..Len(stdin_pipe') :
                      stdin_pipe'[i] = to_bytes(RPCMessage_cancel_request(id_))}) = 1
             /\ request_map' = EmptyDict
       /\ \A id_ \in 1..MaxEvents :
             (CancelSent(id_) /\ DispatchingResponse(id_)) =>
                 (calls' = calls /\ request_map' = request_map)]_vars

\* Two requests were pending when cancel_request was called: it has written
\* the $/cancelRequest of each and the table is empty.
C34_Witness ==
    /\ last_call = [op |-> "cancel_request", exc |-> NoError]
    /\ \E m1 \in RequestMethods : RequestSent(1, m1)
    /\ \E m2 \in RequestMethods : RequestSent(2, m2)
    /\ CancelSent(1)
    /\ CancelSent(2)
    /\ request_map = EmptyDict

(***************************************************************************)
(* cancel_request against a concurrent request, under SpecConc.            *)
(***************************************************************************)
\* C35, as stated: under any interleaving of request() with
\* cancel_request(), every id that cancel_request removes from the Request
\* Table has had its $/cancelRequest notification written to the child.
C35_RemovedIdsWereCancelled ==
    [][\A t \in Callers :
          (threads[t].pc = "cancel_clear" /\ threads'[t].pc # "cancel_clear") =>
              \A id_ \in DictKeys(request_map) :
                  ~DictHas(request_map', id_) => CancelSent(id_)]_vars

(***************************************************************************)
(* One handler invocation per request id, under Spec.                      *)
(***************************************************************************)
\* The handler invocations made with a response that carries the id.
ResponseCalls(id_) ==
    {i \in 1..Len(calls) :
        /\ ~Truthy(ObjGet(calls[i].message, K_method))
        /\ ObjGet(calls[i].message, K_id) = JInt(id_)}

\* C36: each request id leads to at most one handler invocation.  The first
\* response that carries the id removes the entry from the Request Table,
\* also when no handler is registered for the method or the handler raises,
\* and a later response with the same id finds no entry and is dropped
\* without a handler invocation.
C36_AtMostOneInvocation ==
    [][\A id_ \in 1..MaxEvents :
          DispatchingResponse(id_) =>
             /\ ~DictHas(request_map', id_)
             /\ ~DictHas(request_map, id_) =>
                   (calls' = calls /\ request_map' = request_map)
             /\ calls' # calls => ResponseCalls(id_) = {}]_vars

\* Request 1 was sent before any handler was registered; its first response
\* found no handler and took the id from the table, and its second response
\* was dropped: both were taken from the stream and no handler ran.
C36_Witness ==
    /\ \E method \in RequestMethods : RequestSent(1, method)
    /\ command_map = [m \in {} |-> "handle_hover"]
    /\ contents = <<Body_response(1), Body_response(1)>>
    /\ calls = <<>>
    /\ ~DictHas(request_map, 1)
    /\ stdout_thread = "read"
    /\ buffer = <<>>

(***************************************************************************)
(* A request whose write fails, under Spec.                                *)
(***************************************************************************)
\* C37, as stated: when the write to the child fails inside request(), the
\* Request Table is left as it was before the call.
C37_FailedRequestLeavesTable ==
    [][(ClientCalled("request") /\ last_call'.exc # NoError) =>
          request_map' = request_map]_vars

(***************************************************************************)
(* SpecInit: the plugin around one ClangdClient.  The hover task starts    *)
(* the server when it is offline and sends initialize, the child answers,  *)
(* the reader thread of the transport dispatches the answer to             *)
(* handle_initialize, the listeners of the editor notify the child of the  *)
(* documents, and the restart command shuts the server down.  The reader   *)
(* thread of a transport that was shut down lives on until its read        *)
(* returns nothing: terminate() joins no thread.                           *)
(***************************************************************************)
K_capabilities == <<"c", "a", "p">>

\* The view the hover task made the active one: its file and its text.
ViewFile == "a.cpp"
ViewSource == "s"

\* The child's answers to initialize: with capabilities, and with an error.
Body_initialize_result(id_) ==
    ServerDumps(JObj(RPCMessage_response(id_,
                        JObj(<< <<K_capabilities, JInt(1)>> >>), JNull)))

Body_initialize_error(id_) ==
    ServerDumps(JObj(RPCMessage_response(id_, JNull, JInt(1))))

\* LSPClient.textDocument_didOpen on the client s, the current transport's
\* stdin being pipe: what it raises, the client and the pipe it leaves.
textDocument_didOpen_result(s, pipe, file_name, source) ==
    IF ~s.server_running
    THEN [exc |-> "ServerOffline", session |-> s, stdin |-> pipe]
    ELSE IF s.active_document = file_name /\ s.source = source
    THEN [exc |-> NoError, session |-> s, stdin |-> pipe]
    ELSE LET v == get_document_version(s.document_version_map, file_name, TRUE)
             w == transport_notify(s, pipe,
                     RPCMessage_notification(M_didOpen, VersionParams(v.version)))
         IN  [exc |-> w.exc,
              session |-> [s EXCEPT !.active_document = file_name,
                                    !.source = source,
                                    !.document_version_map = v.document_version_map],
              stdin |-> w.stdin]

\* LSPClient.textDocument_didChange, likewise.
textDocument_didChange_result(s, pipe, file_name) ==
    IF ~s.server_running
    THEN [exc |-> "ServerOffline", session |-> s, stdin |-> pipe]
    ELSE LET v == get_document_version(s.document_version_map, file_name, FALSE)
             w == transport_notify(s, pipe,
                     RPCMessage_notification(M_didChange, VersionParams(v.version)))
         IN  [exc |-> w.exc,
              session |-> [s EXCEPT !.document_version_map = v.document_version_map],
              stdin |-> w.stdin]

\* LSPClient.initialized: the notification on self.transport, then the flag.
initialized_result(s, pipe) ==
    LET w == transport_notify(s, pipe, RPCMessage_notification(M_initialized, NoParams))
    IN  [exc |-> w.exc,
         session |-> IF w.exc = NoError THEN [s EXCEPT !.is_initialized = TRUE] ELSE s,
         stdin |-> w.stdin]

\* ClangdClient.handle_initialize, a bound method of the one client: it
\* returns on an error or an empty result, raises when the result has no
\* capabilities, and otherwise calls initialized() and textDocument_didOpen
\* with the active view, both on the transport the client has now.
handle_initialize(message, s, pipe) ==
    LET result == ObjGet(message, K_result)
    IN  IF Truthy(ObjGet(message, K_error)) \/ ~Truthy(result)
        THEN [exc |-> NoError, session |-> s, stdin |-> pipe]
        ELSE IF ~(result.t = "obj" /\ ObjHas(result.o, K_capabilities))
        THEN [exc |-> "KeyError", session |-> s, stdin |-> pipe]
        ELSE LET n == initialized_result(s, pipe)
             IN  IF n.exc # NoError THEN n
                 ELSE textDocument_didOpen_result(n.session, n.stdin,
                                                  ViewFile, ViewSource)

\* The handlers the turn t of a reader thread invoked, applied to the
\* client: handle_initialize is the one that touches it.
AfterHandlers(t, s, pipe) ==
    IF Len(t.calls) > 0 /\ t.calls[1].func = "handle_initialize"
    THEN handle_initialize(t.calls[1].message, s, pipe)
    ELSE [exc |-> NoError, session |-> s, stdin |-> pipe]

InitCommands == RegisterAll([m \in {} |-> "handle_hover"], Methods \cup {M_initialize})

\* EventListener.on_hover_text_task: textDocument_hover, and on
\* ServerOffline _run_server: run_server (a new StandardIO with its child,
\* pipes, threads and tables; the callbacks; the flag) and initialize.  The
\* reader thread of the former transport, when it has not returned, keeps
\* what it has not dispatched and its own request_map.
on_hover_text_task ==
    /\ events < MaxEvents
    /\ IF session.server_running
       THEN /\ IF session.transport = 0
               THEN /\ Called("on_hover_text_task", "AttributeError")
                    /\ UNCHANGED <<request_id, issued, request_map, stdin_pipe>>
               ELSE LET id_ == get_request_id(request_id)
                        message == RPCMessage_request(id_, M_hover, NoParams)
                        w == send_message(stdin_pipe, message)
                    IN  /\ request_id' = id_
                        /\ issued' = Append(issued, id_)
                        /\ request_map' = StandardIO_request(request_map, message)
                        /\ stdin_pipe' = w.stdin
                        /\ Called("on_hover_text_task", w.exc)
            /\ UNCHANGED <<server_process, stdout_pipe, buffer, stdout_thread,
                           stderr_thread, reader_exc, command_map, sent, contents,
                           calls, session, retired>>
       ELSE LET id_ == get_request_id(request_id)
                message == RPCMessage_request(id_, M_initialize, NoParams)
            IN  /\ retired' =
                      IF stdout_thread \in {"read", "process"}
                      THEN [alive |-> TRUE, stdout |-> buffer \o stdout_pipe,
                            request_map |-> request_map]
                      ELSE retired
                /\ server_process' = "running"
                /\ stdout_pipe' = <<>>
                /\ buffer' = <<>>
                /\ stdout_thread' = "read"
                /\ stderr_thread' = "read"
                /\ reader_exc' = NoError
                /\ command_map' = InitCommands
                /\ sent' = <<>>
                /\ contents' = <<>>
                /\ calls' = <<>>
                /\ session' = [session EXCEPT !.transport = session.constructed + 1,
                                              !.constructed = session.constructed + 1,
                                              !.server_running = TRUE]
                /\ request_id' = id_
                /\ issued' = Append(issued, id_)
                /\ request_map' = StandardIO_request(EmptyDict, message)
                /\ stdin_pipe' = <<to_bytes(message)>>
                /\ Called("on_hover_text_task", NoError)
    /\ UNCHANGED <<threads, nreads, codec, REQUEST_LOCK, DOCUMENT_CHANGE_LOCK, loading>>

\* The child answers the initialize request it has read, once.
InitializeAnswered(body) ==
    /\ server_process = "running"
    /\ sent = <<>>
    /\ \E id_ \in 1..MaxEvents :
          /\ Len(stdin_pipe) > 0
          /\ stdin_pipe[1] = to_bytes(RPCMessage_request(id_, M_initialize, NoParams))
          /\ body \in {Body_initialize_result(id_), Body_initialize_error(id_)}
    /\ stdout_pipe' = stdout_pipe \o Frame(body)
    /\ sent' = Append(sent, body)
    /\ UNCHANGED <<server_process, stderr_thread, codec, PluginVars, session, stdin_pipe,
                   buffer, stdout_thread, reader_exc, request_map, command_map,
                   request_id, issued, last_call, events, threads, nreads, contents,
                   calls>>

\* One turn of _process_stream on the current transport, the handler
\* included.
init_process_stream ==
    /\ stdout_thread = "process"
    /\ \E t \in {ReaderTurn(buffer, request_map, command_map)} :
          \E h \in {AfterHandlers(t, session, stdin_pipe)} :
             /\ buffer' = t.buffer
             /\ reader_exc' = IF h.exc # NoError THEN "Exception" ELSE t.exc
             /\ contents' = contents \o t.contents
             /\ request_map' = t.request_map
             /\ calls' = calls \o t.calls
             /\ stdout_thread' = IF t.again THEN "process" ELSE "read"
             /\ session' = h.session
             /\ stdin_pipe' = h.stdin
    /\ UNCHANGED <<server_process, stderr_thread, codec, PluginVars, stdout_pipe,
                   command_map, request_id, issued, last_call, events, threads,
                   sent, nreads>>

\* The reader thread of the former transport: one turn of its loop on what
\* its pipe still holds, the handler included; with nothing left to decode
\* its read returns b"" (the child was terminated) and the thread returns.
retired_process_stream ==
    /\ retired.alive
    /\ \E t \in {ReaderTurn(retired.stdout, retired.request_map, InitCommands)} :
          \E h \in {AfterHandlers(t, session, stdin_pipe)} :
             /\ retired' = [alive |-> t.again, stdout |-> t.buffer,
                            request_map |-> t.request_map]
             /\ session' = h.session
             /\ stdin_pipe' = h.stdin
    /\ UNCHANGED <<server_process, stderr_thread, codec, REQUEST_LOCK,
                   DOCUMENT_CHANGE_LOCK, loading, request_map, command_map,
                   request_id, issued, last_call, events, threads, ReaderVars>>

\* ViewEventListener.on_load_async (on_reload_async and on_activated_async
\* send the same): nothing unless is_initialized, then textDocument_didOpen;
\* ServerOffline is caught.
on_load_async(file_name, source) ==
    /\ events < MaxEvents
    /\ IF ~session.is_initialized
       THEN /\ Called("on_load_async", NoError)
            /\ UNCHANGED <<session, stdin_pipe>>
       ELSE LET d == textDocument_didOpen_result(session, stdin_pipe, file_name, source)
            IN  /\ session' = d.session
                /\ stdin_pipe' = d.stdin
                /\ Called("on_load_async",
                          IF d.exc = "ServerOffline" THEN NoError ELSE d.exc)
    /\ UNCHANGED <<server_process, stderr_thread, codec, PluginVars, request_map,
                   command_map, request_id, issued, threads, ReaderVars>>

\* TextChangeListener.on_text_changed: nothing unless is_initialized, then
\* cancelRequest and textDocument_didChange; ServerOffline is caught.
on_text_changed(file_name) ==
    /\ events < MaxEvents
    /\ IF ~session.is_initialized
       THEN /\ Called("on_text_changed", NoError)
            /\ UNCHANGED <<session, stdin_pipe, request_map>>
       ELSE IF session.transport = 0
       THEN /\ Called("on_text_changed", "AttributeError")
            /\ UNCHANGED <<session, stdin_pipe, request_map>>
       ELSE LET c == cancel_request_result(request_map, stdin_pipe)
                d == textDocument_didChange_result(session, c.stdin, file_name)
            IN  IF c.exc # NoError
                THEN /\ Called("on_text_changed", c.exc)
                     /\ request_map' = c.request_map
                     /\ stdin_pipe' = c.stdin
                     /\ UNCHANGED session
                ELSE /\ request_map' = c.request_map
                     /\ session' = d.session
                     /\ stdin_pipe' = d.stdin
                     /\ Called("on_text_changed",
                               IF d.exc = "ServerOffline" THEN NoError ELSE d.exc)
    /\ UNCHANGED <<server_process, stderr_thread, codec, PluginVars, command_map,
                   request_id, issued, threads, ReaderVars>>

NextInit ==
    \/ on_hover_text_task
    \/ shutdown_server
    \/ \E id_ \in 1..MaxEvents :
          \E body \in {Body_initialize_result(id_), Body_initialize_error(id_)} :
             InitializeAnswered(body)
    \/ listen_stdout_read(Len(stdout_pipe)) /\ UNCHANGED nreads
    \/ init_process_stream
    \/ retired_process_stream
    \/ \E file_name \in Documents, source \in Sources : on_load_async(file_name, source)
    \/ \E file_name \in Documents : on_text_changed(file_name)
    \/ SessionServerExit
    \/ listen_stdout_closed

SpecInit == InitSession /\ [][NextInit]_vars

\* The frame at the place i of stdin is the notification `initialized`.
InitializedAt(i) ==
    stdin_pipe[i] = to_bytes(RPCMessage_notification(M_initialized, NoParams))

\* The frame at the place i of stdin is a didOpen or a didChange.
DocumentNotificationAt(i) ==
    \E version \in 1..(MaxEvents + 1) : \E method \in {M_didOpen, M_didChange} :
        stdin_pipe[i] = to_bytes(RPCMessage_notification(method, VersionParams(version)))

\* The reader thread of the current transport has dispatched a successful
\* response to handle_initialize.
InitializeDispatched ==
    \E i \in 1..Len(calls) :
        /\ calls[i].func = "handle_initialize"
        /\ Truthy(ObjGet(calls[i].message, K_result))
        /\ ~Truthy(ObjGet(calls[i].message, K_error))

\* C38, as stated: on each transport, also across a restart, `initialized`
\* is written only after a successful initialize response has been
\* dispatched on it, is_initialized is true only after that write, and no
\* didOpen or didChange is written before `initialized`.
C38_InitializedAfterInitialize ==
    /\ (\E i \in 1..Len(stdin_pipe) : InitializedAt(i)) => InitializeDispatched
    /\ session.is_initialized => \E i \in 1..Len(stdin_pipe) : InitializedAt(i)
    /\ \A i \in 1..Len(stdin_pipe) :
          DocumentNotificationAt(i) => \E j \in 1..(i - 1) : InitializedAt(j)

(***************************************************************************)
(* SpecPipe: the tasks wrapped by pipe, each on a thread of its own.       *)
(***************************************************************************)
\* thread.start() of on_query_completions or on_hover: the wrapper of pipe
\* is entered.
pipe_begin(t, method) ==
    /\ At(t, "idle")
    /\ events < MaxEvents
    /\ events' = events + 1
    /\ Goto(t, [Idle EXCEPT !.pc = "pipe_locked", !.method = method])
    /\ UNCHANGED <<server_process, stderr_thread, codec, PluginVars, session, stdin_pipe,
                   request_map, command_map, request_id, issued, last_call,
                   ReaderVars>>

\* if REQUEST_LOCK.locked(): return None
pipe_locked(t) ==
    /\ At(t, "pipe_locked")
    /\ IF REQUEST_LOCK
       THEN Returned(t, "pipe_dropped", NoError)
       ELSE /\ Goto(t, [threads[t] EXCEPT !.pc = "pipe_acquire"])
            /\ UNCHANGED last_call
    /\ UNCHANGED <<server_process, stderr_thread, codec, PluginVars, session, stdin_pipe,
                   request_map, command_map, request_id, issued, events, ReaderVars>>

\* with REQUEST_LOCK: the acquire blocks while the lock is locked.
pipe_acquire(t) ==
    /\ At(t, "pipe_acquire")
    /\ ~REQUEST_LOCK
    /\ REQUEST_LOCK' = TRUE
    /\ Goto(t, [threads[t] EXCEPT !.pc = "pipe_func"])
    /\ UNCHANGED <<server_process, stderr_thread, codec, session, stdin_pipe,
                   request_map, command_map, request_id, issued, last_call, events,
                   ReaderVars, DOCUMENT_CHANGE_LOCK, loading, retired>>

\* return func(*args, **kwargs): the task sends its request.
pipe_func(t) ==
    /\ At(t, "pipe_func")
    /\ LET id_ == get_request_id(request_id)
           message == RPCMessage_request(id_, threads[t].method, NoParams)
           w == send_message(stdin_pipe, message)
       IN  /\ request_id' = id_
           /\ issued' = Append(issued, id_)
           /\ request_map' = StandardIO_request(request_map, message)
           /\ stdin_pipe' = w.stdin
           /\ Goto(t, [threads[t] EXCEPT !.pc = "pipe_release", !.id = id_])
    /\ UNCHANGED <<server_process, stderr_thread, codec, PluginVars, session, command_map,
                   last_call, events, ReaderVars>>

\* The end of the with block releases the lock.
pipe_release(t) ==
    /\ At(t, "pipe_release")
    /\ REQUEST_LOCK' = FALSE
    /\ Returned(t, "pipe", NoError)
    /\ UNCHANGED <<server_process, stderr_thread, codec, session, stdin_pipe,
                   request_map, command_map, request_id, issued, events,
                   ReaderVars, DOCUMENT_CHANGE_LOCK, loading, retired>>

NextPipe ==
    \/ \E t \in Callers : \E method \in RequestMethods : pipe_begin(t, method)
    \/ \E t \in Callers : pipe_locked(t)
    \/ \E t \in Callers : pipe_acquire(t)
    \/ \E t \in Callers : pipe_func(t)
    \/ \E t \in Callers : pipe_release(t)

SpecPipe == InitConc /\ [][NextPipe]_vars

\* The thread is inside the wrapped function.
Running(t) == threads[t].pc \in {"pipe_func", "pipe_release"}

\* C39, as stated: tasks wrapped by pipe never run two at a time, and a
\* task that meets a running task is dropped, not queued: no task waits for
\* REQUEST_LOCK while another task runs, to run and send after it.
C39_DroppedNotQueued ==
    /\ \A t1, t2 \in Callers : (Running(t1) /\ Running(t2)) => t1 = t2
    /\ \A t1, t2 \in Callers :
          ~(Running(t1) /\ threads[t2].pc = "pipe_acquire")

(***************************************************************************)
(* SpecVersion: the session, from the return of run_server on, with the    *)
(* handler of publishDiagnostics, which reads the version of a document.   *)
(***************************************************************************)
\* LSPClient.get_document_version with increment=False: the version
\* returned and the map it leaves.
get_document_version_no_increment(versions, file_name, reset) ==
    LET start == IF reset THEN [f \in DOMAIN versions \cup {file_name} |->
                                  IF f = file_name THEN 0 ELSE versions[f]]
                 ELSE versions
    IN  [version |-> IF file_name \in DOMAIN start THEN start[file_name] ELSE 0,
         document_version_map |-> start]

\* The documents the child publishes diagnostics of: the one the editor
\* has and one the client never opened.
PublishedDocuments == Documents \cup {"b.h"}

\* ClangdClient.handle_textDocument_publishDiagnostics, called by the
\* reader thread of the transport: it reads the working version of the
\* document with reset=False and increment=False.
handle_textDocument_publishDiagnostics(file_name) ==
    /\ events < MaxEvents
    /\ session.server_running
    /\ LET v == get_document_version_no_increment(session.document_version_map,
                                                  file_name, FALSE)
       IN  session' = [session EXCEPT !.document_version_map = v.document_version_map]
    /\ Called("handle_textDocument_publishDiagnostics", NoError)
    /\ UNCHANGED <<server_process, stderr_thread, codec, PluginVars, stdin_pipe,
                   request_map, command_map, request_id, issued, threads, ReaderVars>>

NextVersion ==
    \/ NextSession
    \/ \E file_name \in PublishedDocuments :
          handle_textDocument_publishDiagnostics(file_name)

SpecVersion == InitConc /\ [][NextVersion]_vars

\* The frame at the place i of stdin is the notification of the method
\* with the version.
VersionedAt(i, method, version) ==
    stdin_pipe[i] = to_bytes(RPCMessage_notification(method, VersionParams(version)))

\* The versions a document can reach.
Versions == 1..(MaxEvents + 1)

\* The frame at the place i is a didOpen or a didChange that carries the
\* version.
DocumentVersionAt(i, version) ==
    VersionedAt(i, M_didOpen, version) \/ VersionedAt(i, M_didChange, version)

\* No didOpen and no didChange lies between the places j and i.
NoneBetween(j, i) ==
    \A k \in (j + 1)..(i - 1) : \A version \in Versions : ~DocumentVersionAt(k, version)

=============================================================================
